---- MODULE Spec2Model ----
(***************************************************************************)
(* Cross-chip unification of peripherals (SooL builder).                   *)
(*                                                                         *)
(* The model keeps a heap of ChipSet objects and a heap of Register        *)
(* objects, because the code shares both by reference: a Peripheral and    *)
(* its first PeripheralMapping hold the same ChipSet object                *)
(* (peripheral.py:34,45), an instance created by merge_peripheral holds    *)
(* the incoming peripheral's ChipSet object (peripheral.py:198-201), and   *)
(* an incoming Register object is put into the accumulator's registers     *)
(* list and into a mapping (peripheral.py:169,185,342).                    *)
(***************************************************************************)
EXTENDS Integers, Sequences, FiniteSets, TLC

VARIABLES st, hist, last, pair, tree, log, periph, comp

vars == <<st, hist, last, pair, tree, log, periph, comp>>

----------------------------------------------------------------------------
(* Bounds and input domains *)

\* Number of peripherals folded into one accumulator in one run.
MaxMerges == 3

Chips == {"X", "Y", "Z"}

\* Register names are sequences of characters, so that the name setter's
\* character replacement and the length comparison of the automatic rename
\* are computed and not assumed.
SR1 == <<"S", "R", "1">>
SR2 == <<"S", "R", "2">>
STATUS == <<"S", "T", "A", "T", "U", "S">>

RegDef(n, sz, fs) == [name |-> n, size |-> sz, fields |-> fs]

Inst(n, a) == [name |-> n, address |-> a]

P1 == Inst("P1", 100)
P2 == Inst("P2", 200)

At(o, d) == [off |-> o, def |-> d]

Template(l, i) == [layout |-> l, instances |-> i]

----------------------------------------------------------------------------
(* Helpers on sequences *)

MinOf(S) == CHOOSE i \in S : \A j \in S : i <= j

\* The first index of a set of indices, 0 when there is none.
FirstOf(S) == IF S = {} THEN 0 ELSE MinOf(S)

Range(seq) == {seq[i] : i \in 1..Len(seq)}

----------------------------------------------------------------------------
(* ChipSet *)

\* ChipSet.add(other): mutate the object to include all members of other
\* (structure/chipset.py is not among the source files; section 4.1 of the
\* specification gives the operation).
ChipSetAdd(s, id, members) == [s EXCEPT !.cs[id] = @ \cup members]

----------------------------------------------------------------------------
(* Component / Register *)

\* Component.name setter, the string conversion it applies to a new name.
RECURSIVE Sanitize(_)
Sanitize(new) ==
    IF new = << >> THEN << >>
    ELSE LET ch == Head(new)
         IN (IF ch = "[" THEN << "_" >>
             ELSE IF ch = "]" THEN << >>
             ELSE << ch >>) \o Sanitize(Tail(new))

\* Component.name setter on a register record.
SetName(reg, new) ==
    IF new # reg.name
    THEN [reg EXCEPT !.name = Sanitize(new), !.edited = TRUE]
    ELSE reg

\* Register.__eq__: every field of either register is in the other.  A
\* register is modelled with the set of the fields of its variants that are
\* not template-deferred.
RegisterEq(a, b) ==
    /\ \A f \in a.fields : f \in b.fields
    /\ \A f \in b.fields : f \in a.fields

\* Register.mapping_equivalent_to, called by peripheral.py:133,327 and not
\* defined in register.py; from the specification: identical bit layout,
\* whatever the names.
RegisterMappingEquivalentTo(a, b) ==
    /\ a.size = b.size
    /\ a.fields = b.fields

\* Register.compatible, called by peripheral.py:143-144 and not defined in
\* register.py; from the specification: registers of different sizes are
\* not compatible.
RegisterCompatible(a, b) == a.size = b.size

\* Register.add_field for every field of an incoming register: the fields
\* join the local register and its scope takes the fields' scope.
RegisterAddFields(local, reg) ==
    [local EXCEPT !.fields = @ \cup reg.fields,
                  !.chips = @ \cup reg.chips]

\* Register.merge_register, called by peripheral.py:340 and not defined in
\* register.py; from the specification: the inter-document merge of two
\* registers unions the scopes and merges the fields (as
\* Register.inter_svd_merge does, which also keeps the larger size).
RegisterMergeRegister(local, reg) ==
    [local EXCEPT !.fields = @ \cup reg.fields,
                  !.chips = @ \cup reg.chips,
                  !.size = IF reg.size > @ THEN reg.size ELSE @]

----------------------------------------------------------------------------
(* Construction of a per-chip peripheral *)

NoPeripheral == [chips |-> 0, registers |-> <<>>, mappings |-> <<>>,
                 instances |-> <<>>]

EmptyHeap == [cs |-> <<>>, regs |-> <<>>, acc |-> NoPeripheral]

\* Register(xml_reg, chips): the register gets its own copy of the scope
\* (Component.__init__), its name goes through the name setter, and the
\* node starts edited.  Register.__init__ hands no parent to
\* Component.__init__ (register.py:63): parent is None, written 0.
NewRegister(d, c) ==
    [name |-> Sanitize(d.name), size |-> d.size, fields |-> d.fields,
     chips |-> {c}, edited |-> TRUE, parent |-> 0]

\* Peripheral.__init__ / fill_from_xml for chip c, followed by add_instance
\* for each instance of the description.  The peripheral and its mapping
\* share one ChipSet object; register objects are shared by the registers
\* list and the mapping.  Returns the heap and the peripheral built in it.
Build(s, c, t) ==
    LET cid == Len(s.cs) + 1
        nr == Len(t.layout)
        ni == Len(t.instances)
        base == Len(s.regs)
        newcs == [i \in 1..(1 + ni) |-> {c}]
        newregs == [i \in 1..nr |-> NewRegister(t.layout[i].def, c)]
        p == [chips |-> cid,
              registers |-> [i \in 1..nr |-> base + i],
              mappings |-> << [chips |-> cid,
                               rm |-> [i \in 1..nr |->
                                        [off |-> t.layout[i].off,
                                         reg |-> base + i]]] >>,
              instances |-> [i \in 1..ni |->
                              [name |-> t.instances[i].name,
                               address |-> t.instances[i].address,
                               chips |-> cid + i]]]
    IN [s |-> [s EXCEPT !.cs = @ \o newcs, !.regs = @ \o newregs], p |-> p]

----------------------------------------------------------------------------
(* PeripheralMapping.merge_mapping *)

\* Position of offset off in the insertion-ordered register_mapping, or 0.
RmIndex(rm, off) == FirstOf({i \in 1..Len(rm) : rm[i].off = off})

\* A first loop that asks for equivalence whatever the names.
RECURSIVE MergeMappingCheckStrict(_, _, _, _)
MergeMappingCheckStrict(s, m, om, k) ==
    IF k > Len(om.rm) THEN [ok |-> TRUE, s |-> s]
    ELSE
      LET e == om.rm[k]
          j == RmIndex(m.rm, e.off)
      IN IF j = 0 THEN MergeMappingCheckStrict(s, m, om, k + 1)
         ELSE IF RegisterMappingEquivalentTo(s.regs[e.reg], s.regs[m.rm[j].reg])
              THEN MergeMappingCheckStrict(s, m, om, k + 1)
              ELSE [ok |-> FALSE, s |-> s]

\* A first loop whose rename always keeps the receiver's name.
RECURSIVE MergeMappingCheckLocalWins(_, _, _, _)
MergeMappingCheckLocalWins(s, m, om, k) ==
    IF k > Len(om.rm) THEN [ok |-> TRUE, s |-> s]
    ELSE
      LET e == om.rm[k]
          j == RmIndex(m.rm, e.off)
      IN IF j = 0 THEN MergeMappingCheckLocalWins(s, m, om, k + 1)
         ELSE
           LET lid == m.rm[j].reg
               reg == s.regs[e.reg]
               local_reg == s.regs[lid]
           IN IF reg.name # local_reg.name
              THEN IF RegisterMappingEquivalentTo(reg, local_reg)
                   THEN
                     LET s2 == [s EXCEPT !.regs[e.reg] =
                                           SetName(@, local_reg.name)]
                     IN MergeMappingCheckLocalWins(s2, m, om, k + 1)
                   ELSE [ok |-> FALSE, s |-> s]
              ELSE MergeMappingCheckLocalWins(s, m, om, k + 1)

\* First loop of merge_mapping (peripheral.py:323-336), from the k-th entry
\* of the incoming layout: renames equivalent registers as it goes and
\* stops with ok = FALSE at the first non-equivalent pair of names.
RECURSIVE MergeMappingCheck(_, _, _, _)
MergeMappingCheck(s, m, om, k) ==
    IF k > Len(om.rm) THEN [ok |-> TRUE, s |-> s]
    ELSE
      LET e == om.rm[k]
          j == RmIndex(m.rm, e.off)
      IN IF j = 0 THEN MergeMappingCheck(s, m, om, k + 1)
         ELSE
           LET lid == m.rm[j].reg
               reg == s.regs[e.reg]
               local_reg == s.regs[lid]
           IN IF reg.name # local_reg.name
              THEN IF RegisterMappingEquivalentTo(reg, local_reg)
                   THEN
                     LET new_name ==
                           IF Len(local_reg.name) <= Len(reg.name)
                           THEN local_reg.name ELSE reg.name
                         s1 == [s EXCEPT !.regs[lid] = SetName(@, new_name)]
                         s2 == [s1 EXCEPT !.regs[e.reg] = SetName(@, new_name)]
                     IN MergeMappingCheck(s2, m, om, k + 1)
                   ELSE [ok |-> FALSE, s |-> s]
              ELSE MergeMappingCheck(s, m, om, k + 1)

\* Second loop of merge_mapping (peripheral.py:338-342): merge the register
\* at a shared offset, put the incoming register object at a free offset.
RECURSIVE MergeMappingFill(_, _, _, _)
MergeMappingFill(s, mi, om, k) ==
    IF k > Len(om.rm) THEN s
    ELSE
      LET e == om.rm[k]
          rm == s.acc.mappings[mi].rm
          j == RmIndex(rm, e.off)
          s1 == IF j # 0
                THEN [s EXCEPT !.regs[rm[j].reg] =
                                 RegisterMergeRegister(@, s.regs[e.reg])]
                ELSE [s EXCEPT !.acc.mappings[mi].rm = Append(@, e)]
      IN MergeMappingFill(s1, mi, om, k + 1)

\* self.merge_mapping(other) where self is the mi-th mapping of the
\* accumulator and om the incoming mapping.  [ok, s]: the returned boolean
\* and the heap afterwards.
MergeMapping(s, mi, om) ==
    LET c == MergeMappingCheck(s, s.acc.mappings[mi], om, 1)
    IN IF ~c.ok THEN c
       ELSE LET f == MergeMappingFill(c.s, mi, om, 1)
            IN [ok |-> TRUE,
                s |-> ChipSetAdd(f, f.acc.mappings[mi].chips, f.cs[om.chips])]

----------------------------------------------------------------------------
(* Peripheral.merge_peripheral *)

\* A merge that takes the incoming scope in place of the union.
MergeChipsAssign(s, o) == [s EXCEPT !.cs[s.acc.chips] = s.cs[o.chips]]

\* peripheral.py:159
MergeChips(s, o) == ChipSetAdd(s, s.acc.chips, s.cs[o.chips])

\* A register reconciliation that never looks the name up.
RECURSIVE MergeRegistersAppend(_, _, _)
MergeRegistersAppend(s, o, k) ==
    IF k > Len(o.registers) THEN s
    ELSE MergeRegistersAppend([s EXCEPT !.acc.registers =
                                          Append(@, o.registers[k])],
                              o, k + 1)

\* peripheral.py:162-169, from the k-th incoming register.  reg.name in self
\* and self[reg.name] look the name up in the registers list, first match.
RECURSIVE MergeRegisters(_, _, _)
MergeRegisters(s, o, k) ==
    IF k > Len(o.registers) THEN s
    ELSE
      LET r == o.registers[k]
          j == FirstOf({i \in 1..Len(s.acc.registers) :
                          s.regs[s.acc.registers[i]].name = s.regs[r].name})
          s1 == IF j # 0
                THEN [s EXCEPT !.regs[s.acc.registers[j]] =
                                 RegisterAddFields(@, s.regs[r])]
                ELSE [s EXCEPT !.acc.registers = Append(@, r)]
      IN MergeRegisters(s1, o, k + 1)

\* A mapping loop without the break after the first success.
RECURSIVE TryMappingsNoBreak(_, _, _)
TryMappingsNoBreak(s, om, mi) ==
    IF mi > Len(s.acc.mappings) THEN [s |-> s, at |-> 0]
    ELSE
      LET r == MergeMapping(s, mi, om)
          rest == TryMappingsNoBreak(r.s, om, mi + 1)
      IN IF r.ok
         THEN [s |-> ChipSetAdd(rest.s, rest.s.acc.chips, rest.s.cs[om.chips]),
               at |-> mi]
         ELSE rest

\* peripheral.py:178-182: try the existing mappings from the mi-th on.
\* at is the index of the mapping that absorbed om, 0 when none did.
RECURSIVE TryMappings(_, _, _)
TryMappings(s, om, mi) ==
    IF mi > Len(s.acc.mappings) THEN [s |-> s, at |-> 0]
    ELSE
      LET r == MergeMapping(s, mi, om)
      IN IF r.ok
         THEN [s |-> ChipSetAdd(r.s, r.s.acc.chips, r.s.cs[om.chips]),
               at |-> mi]
         ELSE TryMappings(r.s, om, mi + 1)

\* peripheral.py:176-186, from the k-th incoming mapping.
RECURSIVE MergeMappings(_, _, _)
MergeMappings(s, o, k) ==
    IF k > Len(o.mappings) THEN s
    ELSE
      LET om == o.mappings[k]
          t == TryMappings(s, om, 1)
          s1 == IF t.at # 0 THEN t.s
                ELSE ChipSetAdd([t.s EXCEPT !.acc.mappings = Append(@, om)],
                                t.s.acc.chips, t.s.cs[om.chips])
      IN MergeMappings(s1, o, k + 1)

\* PeripheralInstance.__eq__
InstanceEq(a, b) == a.name = b.name /\ a.address = b.address

\* peripheral.py:189-206, from the k-th incoming instance.  eq is
\* equivalent_instance as an index into the accumulator's instances
\* (0 for None); it is set once before the loop and kept across iterations.
RECURSIVE MergeInstances(_, _, _, _)
MergeInstances(s, o, k, eq) ==
    IF k > Len(o.instances) THEN s
    ELSE
      LET oi == o.instances[k]
          j == FirstOf({i \in 1..Len(s.acc.instances) :
                          InstanceEq(s.acc.instances[i], oi)})
          eq1 == IF j # 0 THEN j ELSE eq
      IN IF eq1 = 0
         THEN LET ni == [name |-> oi.name, address |-> oi.address,
                         chips |-> o.chips]
                  s1 == [s EXCEPT !.acc.instances = Append(@, ni)]
                  s2 == ChipSetAdd(s1, s1.acc.chips, s1.cs[oi.chips])
              IN MergeInstances(s2, o, k + 1, Len(s1.acc.instances))
         ELSE LET s1 == ChipSetAdd(s, s.acc.instances[eq1].chips, s.cs[o.chips])
                  s2 == ChipSetAdd(s1, s1.acc.chips, s1.cs[oi.chips])
              IN MergeInstances(s2, o, k + 1, eq1)

\* The heap after the register and mapping reconciliation of
\* merge_peripheral (peripheral.py:159-186).
MergeUpToMappings(s, o) ==
    MergeMappings(MergeRegisters(MergeChips(s, o), o, 1), o, 1)

\* self.merge_peripheral(other), self being the accumulator s.acc.
MergePeripheral(s, o) == MergeInstances(MergeUpToMappings(s, o), o, 1, 0)

----------------------------------------------------------------------------
(* Peripheral predicates *)

\* Peripheral.__getitem__(Register): the first register equal to item.
PeripheralGetItem(s, p, item) ==
    s.regs[p.registers[FirstOf({i \in 1..Len(p.registers) :
                                  RegisterEq(item, s.regs[p.registers[i]])})]]

\* register in peripheral: iteration of the registers with Register.__eq__.
PeripheralContains(s, p, item) ==
    \E i \in 1..Len(p.registers) : RegisterEq(s.regs[p.registers[i]], item)

\* self.mapping_equivalent_to(other), self = a, other = b.
PeripheralMappingEquivalentTo(s, a, b) ==
    \A i \in 1..Len(a.registers) :
        LET register == s.regs[a.registers[i]]
        IN ~ (\/ ~ PeripheralContains(s, b, register)
              \/ ~ RegisterMappingEquivalentTo(PeripheralGetItem(s, b, register),
                                               register))

\* A compatibility check that wants every incoming offset in the receiver.
PeripheralCompatibleStrict(s, a, b) ==
    \/ PeripheralMappingEquivalentTo(s, a, b)
    \/ \A k \in 1..Len(b.mappings[1].rm) :
         LET pos == b.mappings[1].rm[k].off
             j == RmIndex(a.mappings[1].rm, pos)
         IN /\ j # 0
            /\ RegisterCompatible(s.regs[b.mappings[1].rm[k].reg],
                                  s.regs[a.mappings[1].rm[j].reg])

\* self.compatible(other), self = a, other = b.
PeripheralCompatible(s, a, b) ==
    \/ PeripheralMappingEquivalentTo(s, a, b)
    \/ \A k \in 1..Len(b.mappings[1].rm) :
         LET pos == b.mappings[1].rm[k].off
             j == RmIndex(a.mappings[1].rm, pos)
         IN j # 0 =>
              RegisterCompatible(s.regs[b.mappings[1].rm[k].reg],
                                 s.regs[a.mappings[1].rm[j].reg])

\* self.subset(other) of two mappings, self = m, other = om: every offset of
\* m is in om with a register that Register.__eq__ finds equal.
PeripheralMappingSubset(s, m, om) ==
    \A k \in 1..Len(m.rm) :
        LET j == RmIndex(om.rm, m.rm[k].off)
        IN ~ (\/ j = 0
              \/ ~ RegisterEq(s.regs[m.rm[k].reg], s.regs[om.rm[j].reg]))

----------------------------------------------------------------------------
(* Peripheral.finalize and Component.needs_define *)

\* ChipSet equality, used by needs_define (structure/chipset.py is not among
\* the source files): two scopes are equal when they hold the same chips.
ChipSetEq(a, b) == a = b

\* A needs_define without the comparison of the scopes.
NeedsDefineAnyScope(named, parented, chips, parent_chips) ==
    named /\ parented

\* Component.needs_define: named and parented say whether self.name and
\* self.parent are not None, parent_chips is self.parent.chips (read only
\* when there is a parent).
NeedsDefine(named, parented, chips, parent_chips) ==
    /\ named
    /\ parented
    /\ ~ ChipSetEq(chips, parent_chips)

\* needs_define of register record r of heap s.  A register built from a
\* description always has a name; the only peripheral that can be its parent
\* is the accumulator.
RegisterNeedsDefine(s, r) ==
    NeedsDefine(TRUE, r.parent # 0, r.chips, s.cs[s.acc.chips])

\* Instance names in string order.
InstanceNames == << "P1", "P2", "P3" >>

NameRank(n) == FirstOf({i \in 1..Len(InstanceNames) : InstanceNames[i] = n})

\* The sort key of Peripheral.finalize: (name, len(chips.chips), address),
\* a precedes b when its key is strictly smaller.
InstanceKeyLess(s, a, b) ==
    \/ NameRank(a.name) < NameRank(b.name)
    \/ /\ a.name = b.name
       /\ \/ Cardinality(s.cs[a.chips]) < Cardinality(s.cs[b.chips])
          \/ /\ Cardinality(s.cs[a.chips]) = Cardinality(s.cs[b.chips])
             /\ a.address < b.address

\* sorted(): stable, x goes before the first element with a greater key.
RECURSIVE InsertSorted(_, _, _)
InsertSorted(s, done, x) ==
    IF done = << >> THEN << x >>
    ELSE IF InstanceKeyLess(s, x, Head(done))
         THEN << x >> \o done
         ELSE << Head(done) >> \o InsertSorted(s, Tail(done), x)

RECURSIVE SortInstances(_, _, _)
SortInstances(s, done, k) ==
    IF k > Len(s.acc.instances) THEN done
    ELSE SortInstances(s, InsertSorted(s, done, s.acc.instances[k]), k + 1)

\* The loop of Peripheral.finalize (peripheral.py:210-211) from the k-th
\* entry of the registers list: register.finalize() and nothing else; no
\* set_parent, no union into the peripheral's scope.  Register.finalize is
\* Component.finalize over the register's variants; add_field
\* (register.py:130) has already put the scope of every field into the
\* register's, so that the union of component.py:99 leaves the register's
\* scope as it is.  FinalizeNode below has the walk over variants and fields.
RECURSIVE FinalizeRegisters(_, _)
FinalizeRegisters(s, k) ==
    IF k > Len(s.acc.registers) THEN s
    ELSE FinalizeRegisters(s, k + 1)

\* Peripheral.finalize on the accumulator.
PeripheralFinalize(s) ==
    FinalizeRegisters([s EXCEPT !.acc.instances = SortInstances(s, << >>, 1)],
                      1)

----------------------------------------------------------------------------
(* Per-chip descriptions handed to the fold *)

F1 == {"f1"}
F2 == {"f2"}

\* Layouts of the folded descriptions: a register, an equivalent register
\* under a longer name, the same name with another size, two registers, a
\* register at another offset only, an unrelated register, and the register
\* of the second layout found at another offset.
FoldLayouts ==
    { << At(0, RegDef(SR1, 32, F1)) >>,
      << At(0, RegDef(STATUS, 32, F1)) >>,
      << At(0, RegDef(SR1, 16, F1)) >>,
      << At(0, RegDef(SR1, 32, F1)), At(4, RegDef(SR2, 16, F2)) >>,
      << At(4, RegDef(STATUS, 32, F2)) >>,
      << At(0, RegDef(SR2, 16, F2)) >>,
      << At(4, RegDef(STATUS, 32, F1)) >> }

P3 == Inst("P3", 300)

FoldInstances == { << P1 >>, << P2, P3 >> }

FoldTemplates == {Template(l, i) : l \in FoldLayouts, i \in FoldInstances}

\* Chips are named in order of first appearance: a fold step takes a chip
\* already folded or the next new one.
ChipOrder == << "X", "Y", "Z" >>

ChipsOf(h) == {h[i].chip : i \in 1..Len(h)}

NextChips(h) ==
    LET n == Cardinality(ChipsOf(h))
    IN {ChipOrder[i] : i \in 1..(IF n < Len(ChipOrder) THEN n + 1 ELSE n)}

----------------------------------------------------------------------------
(* The fold of per-chip peripherals into one accumulator *)

NoRecord == [kind |-> "none"]

\* No component tree is under study.
NoTree == [phase |-> "none", nodes |-> << >>]

\* What the last merge_peripheral call saw and did: the heap before the
\* call with the incoming peripheral o built in it, the heap when the
\* mapping loop starts and when it ends, the index of the absorbing
\* mapping, and self.compatible(other) evaluated before the call.
MergeRecord(s, o) ==
    LET regd == MergeRegisters(MergeChips(s, o), o, 1)
    IN [kind |-> "merge", pre |-> s, o |-> o,
        regd |-> regd,
        mid |-> MergeMappings(regd, o, 1),
        at |-> TryMappings(regd, o.mappings[1], 1).at,
        compat |-> PeripheralCompatible(s, s.acc, o)]

Init ==
    /\ st = EmptyHeap
    /\ hist = << >>
    /\ last = NoRecord
    /\ pair = NoRecord
    /\ tree = NoTree
    /\ log = << >>
    /\ periph = NoRecord
    /\ comp = NoRecord

\* The first peripheral of a group becomes the accumulator.
Start(c, t) ==
    /\ Len(hist) = 0
    /\ LET b == Build(st, c, t)
       IN st' = [b.s EXCEPT !.acc = b.p]
    /\ hist' = << [chip |-> c, t |-> t] >>
    /\ UNCHANGED <<last, pair, tree, log, periph, comp>>

\* A later peripheral is built from its chip's document and merged.
Merge(c, t) ==
    /\ Len(hist) > 0
    /\ Len(hist) < MaxMerges
    /\ LET b == Build(st, c, t)
       IN /\ st' = MergePeripheral(b.s, b.p)
          /\ last' = MergeRecord(b.s, b.p)
    /\ hist' = Append(hist, [chip |-> c, t |-> t])
    /\ UNCHANGED <<pair, tree, log, periph, comp>>

Next ==
    \/ \E c \in NextChips(hist), t \in FoldTemplates : Start(c, t)
    \/ \E c \in NextChips(hist), t \in FoldTemplates : Merge(c, t)

Spec == Init /\ [][Next]_vars

----------------------------------------------------------------------------
(* Observations of a heap *)

Scope(s, id) == s.cs[id]

\* Register content of the accumulator: the register names, each with its
\* fields.
RegContent(s) ==
    {[name |-> s.regs[id].name, fields |-> s.regs[id].fields] :
        id \in Range(s.acc.registers)}

\* The registers of a peripheral in list order, without their scope.
RegList(s, p) ==
    [i \in 1..Len(p.registers) |->
        [name |-> s.regs[p.registers[i]].name,
         size |-> s.regs[p.registers[i]].size,
         fields |-> s.regs[p.registers[i]].fields]]

\* The layout of a mapping: offset and register definition, in order.
LayoutOf(s, m) ==
    [i \in 1..Len(m.rm) |->
        [off |-> m.rm[i].off,
         name |-> s.regs[m.rm[i].reg].name,
         size |-> s.regs[m.rm[i].reg].size,
         fields |-> s.regs[m.rm[i].reg].fields]]

Offsets(m) == {m.rm[i].off : i \in 1..Len(m.rm)}

RegAt(s, m, off) == s.regs[m.rm[RmIndex(m.rm, off)].reg]

InstPairs(p) ==
    {[name |-> p.instances[i].name, address |-> p.instances[i].address] :
        i \in 1..Len(p.instances)}

InstList(p) ==
    [i \in 1..Len(p.instances) |->
        [name |-> p.instances[i].name, address |-> p.instances[i].address]]

Merged == last.kind = "merge"

----------------------------------------------------------------------------
(* C1: instance reconciliation *)

\* C1: after merge_peripheral every incoming instance is reconciled by
\* (name, address): one that the accumulator already held adds no instance,
\* one that it lacked is appended, so every incoming (name, address) pair is
\* among the accumulator's instances and the instance list grew by exactly
\* the pairs that were missing.
C1_EveryInstanceReconciled ==
    Merged =>
        /\ InstPairs(last.o) \subseteq InstPairs(st.acc)
        /\ Len(st.acc.instances) =
             Len(last.pre.acc.instances)
               + Cardinality(InstPairs(last.o) \ InstPairs(last.pre.acc))

----------------------------------------------------------------------------
(* C8: scope union *)

\* C8: whatever the order of the fold, the accumulator's scope is the set
\* union of the scopes of the peripherals folded into it.
C8_ScopeIsUnion ==
    Len(hist) > 0 => Scope(st, st.acc.chips) = ChipsOf(hist)

\* Three peripherals of three chips have been folded.
C8_Witness ==
    /\ Len(hist) = 3
    /\ ChipsOf(hist) = Chips
    /\ Scope(st, st.acc.chips) = Chips

----------------------------------------------------------------------------
(* C4: mapping reconciliation *)

\* Everything a mapping holds: its scope, its offsets and the state of the
\* register objects at them.
MappingView(s, m) ==
    [scope |-> Scope(s, m.chips),
     rm |-> m.rm,
     regs |-> [i \in 1..Len(m.rm) |-> s.regs[m.rm[i].reg]]]

\* Every offset of the incoming mapping om is in mapping m, with a register
\* that holds at least the incoming register's fields.
Absorbed(s, m, om) ==
    \A k \in 1..Len(om.rm) :
        /\ om.rm[k].off \in Offsets(m)
        /\ s.regs[om.rm[k].reg].fields \subseteq RegAt(s, m, om.rm[k].off).fields

C4_WitnessAppend ==
    /\ Merged
    /\ last.at = 0
    /\ Len(st.acc.mappings) = 3

----------------------------------------------------------------------------
(* C5: different-sized registers at one offset *)

SharedOffsets(m1, m2) == Offsets(m1) \cap Offsets(m2)

\* C5: when the accumulator is chip X's peripheral and the peripheral of
\* another chip Y, with a register of another size at a shared offset, is
\* merged into it, compatible was false and the accumulator holds two
\* mappings, the first scoped to exactly {X}, the second to exactly {Y}.
C5_TwoMappingsOnePerChip ==
    ( /\ Merged
      /\ Len(hist) = 2
      /\ hist[1].chip # hist[2].chip
      /\ \E off \in SharedOffsets(last.pre.acc.mappings[1], last.o.mappings[1]) :
            RegAt(last.pre, last.pre.acc.mappings[1], off).size
              # RegAt(last.pre, last.o.mappings[1], off).size )
    => /\ ~ last.compat
       /\ Len(st.acc.mappings) = 2
       /\ Scope(st, st.acc.mappings[1].chips) = {hist[1].chip}
       /\ Scope(st, st.acc.mappings[2].chips) = {hist[2].chip}

----------------------------------------------------------------------------
(* C9: order independence of the content *)

RECURSIVE FoldFrom(_, _, _)
FoldFrom(s, h, k) ==
    IF k > Len(h) THEN s
    ELSE LET b == Build(s, h[k].chip, h[k].t)
         IN FoldFrom(MergePeripheral(b.s, b.p), h, k + 1)

\* The accumulator obtained by folding the peripherals of h in h's order.
Fold(h) ==
    LET b == Build(EmptyHeap, h[1].chip, h[1].t)
    IN FoldFrom([b.s EXCEPT !.acc = b.p], h, 2)

Reordered(h, p) == [i \in 1..Len(h) |-> h[p[i]]]

\* C9: folding the same peripherals in any other order gives the same
\* register content and the same set of instances.
C9_ContentOrderIndependent ==
    Len(hist) = MaxMerges =>
        \A p \in Permutations(1..Len(hist)) :
            LET other == Fold(Reordered(hist, p))
            IN /\ RegContent(other) = RegContent(st)
               /\ InstPairs(other.acc) = InstPairs(st.acc)

----------------------------------------------------------------------------
(* C10: idempotence *)

\* The accumulator of heap s is an identical copy of the incoming
\* peripheral o: same scope, registers, single mapping and instances.
IdenticalCopy(s, o) ==
    /\ Scope(s, s.acc.chips) = Scope(s, o.chips)
    /\ RegList(s, s.acc) = RegList(s, o)
    /\ Len(s.acc.mappings) = 1
    /\ Len(o.mappings) = 1
    /\ LayoutOf(s, s.acc.mappings[1]) = LayoutOf(s, o.mappings[1])
    /\ Scope(s, s.acc.mappings[1].chips) = Scope(s, o.mappings[1].chips)
    /\ InstList(s.acc) = InstList(o)

\* C10: merging an identical copy leaves the registers (names, sizes,
\* fields, number), the single mapping, the instances and the scope of the
\* accumulator as they were.
C10_Idempotent ==
    (Merged /\ IdenticalCopy(last.pre, last.o)) =>
        /\ RegList(st, st.acc) = RegList(last.pre, last.pre.acc)
        /\ Len(st.acc.mappings) = 1
        /\ LayoutOf(st, st.acc.mappings[1])
             = LayoutOf(last.pre, last.pre.acc.mappings[1])
        /\ InstList(st.acc) = InstList(last.pre.acc)
        /\ Scope(st, st.acc.chips) = Scope(last.pre, last.pre.acc.chips)

\* An identical copy with two registers and two instances has been merged.
C10_Witness ==
    /\ Merged
    /\ IdenticalCopy(last.pre, last.o)
    /\ Len(last.o.registers) = 2
    /\ Len(last.o.instances) = 2

----------------------------------------------------------------------------
(* Two fresh peripherals: merge_mapping and the equivalence predicates *)

PairOffsets == {0, 4}

PairRegDefs ==
    {RegDef(n, sz, fs) : n \in {SR1, SR2, STATUS}, sz \in {16, 32},
                         fs \in {F1, F2}}

PairEntries == {At(o, d) : o \in PairOffsets, d \in PairRegDefs}

\* Layouts in document order, with distinct offsets and register names.
PairLayouts ==
    {<< >>} \cup {<< e >> : e \in PairEntries}
      \cup {l \in {<< e1, e2 >> : e1 \in PairEntries, e2 \in PairEntries} :
              /\ l[1].off # l[2].off
              /\ l[1].def.name # l[2].def.name}

\* Peripheral A of chip X is the receiver (the accumulator of the heap),
\* peripheral B of chip Y the incoming one.
InitPair ==
    \E la \in PairLayouts, lb \in PairLayouts :
        LET a == Build(EmptyHeap, "X", Template(la, << P1 >>))
            b == Build([a.s EXCEPT !.acc = a.p], "Y", Template(lb, << P1 >>))
        IN /\ st = b.s
           /\ pair = [kind |-> "init", o |-> b.p]
           /\ hist = << >>
           /\ last = NoRecord
           /\ tree = NoTree
           /\ log = << >>
           /\ periph = NoRecord
           /\ comp = NoRecord

\* A.mappings[0].merge_mapping(B.mappings[0])
PairMergeMapping ==
    /\ pair.kind = "init"
    /\ LET r == MergeMapping(st, 1, pair.o.mappings[1])
       IN /\ st' = r.s
          /\ pair' = [kind |-> "merged", o |-> pair.o, pre |-> st, ok |-> r.ok]
    /\ UNCHANGED <<hist, last, tree, log, periph, comp>>

\* mapping_equivalent_to and compatible, called in both directions.
PairCompare ==
    /\ pair.kind = "init"
    /\ pair' = [kind |-> "compared", o |-> pair.o,
                eqAB |-> PeripheralMappingEquivalentTo(st, st.acc, pair.o),
                eqBA |-> PeripheralMappingEquivalentTo(st, pair.o, st.acc),
                compatAB |-> PeripheralCompatible(st, st.acc, pair.o),
                compatBA |-> PeripheralCompatible(st, pair.o, st.acc)]
    /\ UNCHANGED <<st, hist, last, tree, log, periph, comp>>

\* A.merge_peripheral(B)
PairMergePeripheral ==
    /\ pair.kind = "init"
    /\ st' = MergePeripheral(st, pair.o)
    /\ pair' = [kind |-> "joined", o |-> pair.o, pre |-> st]
    /\ UNCHANGED <<hist, last, tree, log, periph, comp>>

\* A.finalize() after the merge
PairFinalize ==
    /\ pair.kind = "joined"
    /\ st' = PeripheralFinalize(st)
    /\ pair' = [pair EXCEPT !.kind = "finalized"]
    /\ UNCHANGED <<hist, last, tree, log, periph, comp>>

NextPair ==
    \/ PairMergeMapping
    \/ PairCompare
    \/ PairMergePeripheral
    \/ PairFinalize

SpecPair == InitPair /\ [][NextPair]_vars

PairMerged == pair.kind = "merged"

PairCompared == pair.kind = "compared"

\* The offsets present in both layouts before the call.
PairShared == SharedOffsets(pair.pre.acc.mappings[1], pair.o.mappings[1])

LocalAt(off) == RegAt(pair.pre, pair.pre.acc.mappings[1], off)

IncomingAt(off) == RegAt(pair.pre, pair.o.mappings[1], off)

----------------------------------------------------------------------------
(* C2: a refused merge_mapping edits nothing *)

\* C2: when merge_mapping returns False, the receiving mapping, the
\* incoming mapping and every register of either, names included, are as
\* they were before the call.
C2_RefusedMergeEditsNothing ==
    (PairMerged /\ ~ pair.ok) => st = pair.pre

----------------------------------------------------------------------------
(* C3: when merge_mapping succeeds *)

----------------------------------------------------------------------------
(* C6: mapping_equivalent_to *)

\* Every register of p exists with an equal definition in q.
AllDefinedIn(s, p, q) ==
    \A i \in 1..Len(p.registers) :
        \E j \in 1..Len(q.registers) :
            /\ RegisterEq(s.regs[p.registers[i]], s.regs[q.registers[j]])
            /\ RegisterMappingEquivalentTo(s.regs[p.registers[i]],
                                           s.regs[q.registers[j]])

\* C6: mapping_equivalent_to gives the same answer in both directions, and
\* is true exactly when every register of either peripheral exists with an
\* equal definition in the other.
C6_MappingEquivalenceSymmetric ==
    PairCompared =>
        /\ pair.eqAB = pair.eqBA
        /\ pair.eqAB <=> (/\ AllDefinedIn(st, st.acc, pair.o)
                          /\ AllDefinedIn(st, pair.o, st.acc))

----------------------------------------------------------------------------
(* C7: compatible *)

----------------------------------------------------------------------------
(* C11, C12: the automatic rename *)

\* The first loop of merge_mapping reached offset off: no entry of the
\* incoming layout before it, in the incoming order, made the call return.
PairMet(off) ==
    LET om == pair.o.mappings[1]
    IN \A k \in 1..RmIndex(om.rm, off) :
         om.rm[k].off \in PairShared =>
            \/ LocalAt(om.rm[k].off).name = IncomingAt(om.rm[k].off).name
            \/ RegisterMappingEquivalentTo(IncomingAt(om.rm[k].off),
                                           LocalAt(om.rm[k].off))

\* Two equivalent registers of different names meet at shared offset off.
PairRenameAt(off) ==
    /\ off \in PairShared
    /\ PairMet(off)
    /\ LocalAt(off).name # IncomingAt(off).name
    /\ RegisterMappingEquivalentTo(IncomingAt(off), LocalAt(off))

\* The receiver's and the incoming register object of offset off, as the
\* call left them.
LocalAfter(off) == RegAt(st, pair.pre.acc.mappings[1], off)

IncomingAfter(off) == RegAt(st, pair.o.mappings[1], off)

TemplateOf(s, p) ==
    Template([i \in 1..Len(p.mappings[1].rm) |->
                At(p.mappings[1].rm[i].off,
                   RegDef(s.regs[p.mappings[1].rm[i].reg].name,
                          s.regs[p.mappings[1].rm[i].reg].size,
                          s.regs[p.mappings[1].rm[i].reg].fields))],
             << P1 >>)

\* The same two peripherals merged the other way round: B, of chip Y, is the
\* receiver and A, of chip X, the incoming one.  The heap after
\* B.mappings[0].merge_mapping(A.mappings[0]).
ReverseMerge ==
    LET b == Build(EmptyHeap, "Y", TemplateOf(pair.pre, pair.o))
        a == Build([b.s EXCEPT !.acc = b.p], "X",
                   TemplateOf(pair.pre, pair.pre.acc))
    IN MergeMapping(a.s, 1, a.p.mappings[1]).s

\* C12: when merge_mapping meets two equivalent registers whose names differ
\* and have the same length, the name both carry afterwards is the name they
\* carry when the same two mappings are merged the other way round.
C12_TieBreakOrderIndependent ==
    PairMerged =>
        \A off \in PairOffsets :
            ( /\ PairRenameAt(off)
              /\ Len(LocalAt(off).name) = Len(IncomingAt(off).name)
              /\ Len(pair.o.mappings[1].rm) = 1
              /\ Len(pair.pre.acc.mappings[1].rm) = 1 )
            => LocalAfter(off).name
                 = RegAt(ReverseMerge, ReverseMerge.acc.mappings[1], off).name

----------------------------------------------------------------------------
(* C13, C14: the registers list against the mappings *)

\* The names of the registers list of the accumulator.
RegNames(s) == {s.regs[id].name : id \in Range(s.acc.registers)}

\* C13: after any sequence of merge_peripheral calls no two entries of the
\* accumulator's registers list carry the same name.
C13_RegistersUniqueByName ==
    \A i \in 1..Len(st.acc.registers), j \in 1..Len(st.acc.registers) :
        i # j => st.regs[st.acc.registers[i]].name
                   # st.regs[st.acc.registers[j]].name

\* C14: after any sequence of merge_peripheral calls the name of every
\* register that a mapping of the accumulator refers to is the name of an
\* entry of the accumulator's registers list.
C14_MappedNamesAreRegistered ==
    \A mi \in 1..Len(st.acc.mappings) :
        \A k \in 1..Len(st.acc.mappings[mi].rm) :
            st.regs[st.acc.mappings[mi].rm[k].reg].name \in RegNames(st)

----------------------------------------------------------------------------
(* C15: merging a superset *)

\* C15: when the receiving mapping is a subset of the incoming one, the
\* merge returns True, the receiver then has exactly the incoming offsets,
\* at each of them a register with the name, size and fields the incoming
\* register had, and a scope that is the union of the two scopes.
C15_SubsetMergeGivesSuperset ==
    ( /\ PairMerged
      /\ PeripheralMappingSubset(pair.pre, pair.pre.acc.mappings[1],
                                 pair.o.mappings[1]) )
    => /\ pair.ok
       /\ Offsets(st.acc.mappings[1]) = Offsets(pair.o.mappings[1])
       /\ \A off \in Offsets(pair.o.mappings[1]) :
             /\ RegAt(st, st.acc.mappings[1], off).name = IncomingAt(off).name
             /\ RegAt(st, st.acc.mappings[1], off).size = IncomingAt(off).size
             /\ RegAt(st, st.acc.mappings[1], off).fields
                  = IncomingAt(off).fields
       /\ Scope(st, st.acc.mappings[1].chips)
            = Scope(pair.pre, pair.pre.acc.mappings[1].chips)
                \cup Scope(pair.pre, pair.o.mappings[1].chips)

----------------------------------------------------------------------------
(* C16: hole filling *)

\* Mapping m has a register at offset off, mapping om has none there, and
\* at the other offsets the two layouts hold the same registers.
HoleIn(s, m, om, off) ==
    /\ off \in Offsets(m)
    /\ Offsets(om) = Offsets(m) \ {off}
    /\ \A o2 \in Offsets(om) :
          /\ RegAt(s, m, o2).name = RegAt(s, om, o2).name
          /\ RegAt(s, m, o2).size = RegAt(s, om, o2).size
          /\ RegAt(s, m, o2).fields = RegAt(s, om, o2).fields

\* The merge of the two peripherals left one mapping of scope {X, Y} that
\* holds, at offset off, a register scoped to chip c alone.
HoleFilled(off, c) ==
    /\ Len(st.acc.mappings) = 1
    /\ Scope(st, st.acc.mappings[1].chips) = {"X", "Y"}
    /\ off \in Offsets(st.acc.mappings[1])
    /\ RegAt(st, st.acc.mappings[1], off).chips = {c}

\* C16: when one chip's mapping has a register at an offset that the other
\* chip's otherwise identical mapping lacks, then after merge_peripheral, in
\* either direction, and finalize, the single mapping has scope {X, Y} and
\* holds that register at that offset with the scope of its chip alone, and
\* needs_define of that register is true.
C16_HoleFilledAndGuarded ==
    pair.kind = "finalized" =>
        \A off \in PairOffsets :
            /\ HoleIn(pair.pre, pair.pre.acc.mappings[1], pair.o.mappings[1],
                      off)
               => /\ HoleFilled(off, "X")
                  /\ RegisterNeedsDefine(st, RegAt(st, st.acc.mappings[1], off))
            /\ HoleIn(pair.pre, pair.o.mappings[1], pair.pre.acc.mappings[1],
                      off)
               => /\ HoleFilled(off, "Y")
                  /\ RegisterNeedsDefine(st, RegAt(st, st.acc.mappings[1], off))

\* What holds of the claim: the layout and the scopes, without the guard.
C16_HoleFilledOnly ==
    pair.kind = "finalized" =>
        \A off \in PairOffsets :
            /\ HoleIn(pair.pre, pair.pre.acc.mappings[1], pair.o.mappings[1],
                      off)
               => HoleFilled(off, "X")
            /\ HoleIn(pair.pre, pair.o.mappings[1], pair.pre.acc.mappings[1],
                      off)
               => HoleFilled(off, "Y")

----------------------------------------------------------------------------
(* A component tree: finalize, needs_define and the correction hooks *)

\* The name or the parent corrector that is None.
None == "None"

Node(k, n, p, c, ch) ==
    [kind |-> k, name |-> n, parent |-> p, chips |-> c, children |-> ch]

\* One peripheral (node 1) with two registers (2 and 6); register 2 has one
\* variant (3) that holds two fields (4 and 5), register 6 has no variant.
\* As construction leaves them: a register has no parent (register.py:63), a
\* variant has its register for parent (add_variant, register.py:151), a
\* variant is built without a name, and the scope of a field is part of its
\* register's scope (add_field, register.py:130).  pn is the peripheral's
\* name, fp the parent of the fields, the others are scopes.
BuildTree(pn, fp, r2, v3, f4, f5, r6) ==
    << Node("Peripheral", pn, 0, {"X", "Y"}, << 2, 6 >>),
       Node("Register", "R2", 0, r2, << 3 >>),
       Node("Variant", None, 2, v3, << 4, 5 >>),
       Node("Field", "F4", fp, f4, << >>),
       Node("Field", "F5", fp, f5, << >>),
       Node("Register", "R6", 0, r6, << >>) >>

\* The scope of the variant starts empty, as the scope of its fields, or as
\* the scope of its register.
InitTree ==
    /\ st = EmptyHeap
    /\ hist = << >>
    /\ last = NoRecord
    /\ pair = NoRecord
    /\ log = << >>
    /\ periph = NoRecord
    /\ comp = NoRecord
    /\ \E pn \in {None, "P"}, fp \in {0, 3},
          r2 \in {{"X"}, {"X", "Y"}}, r6 \in {{"Y"}, {"X", "Y"}} :
         \E f4 \in (SUBSET r2) \ {{}}, f5 \in (SUBSET r2) \ {{}} :
           \E v3 \in {{}, f4 \cup f5, r2} :
              tree = [phase |-> "built",
                      nodes |-> BuildTree(pn, fp, r2, v3, f4, f5, r6)]

\* Component.finalize on node id of r.nodes; r.log takes one event per
\* statement: set_parent, the end of a node's finalize (update_families),
\* and the union of a child's scope into its parent's.
RECURSIVE FinalizeNode(_, _)
RECURSIVE FinalizeChildren(_, _, _)
FinalizeChildren(r, id, k) ==
    IF k > Len(r.nodes[id].children) THEN r
    ELSE
      LET child == r.nodes[id].children[k]
          r1 == [nodes |-> [r.nodes EXCEPT ![child].parent = id],
                 log |-> Append(r.log, [op |-> "set_parent", node |-> child])]
          r2 == FinalizeNode(r1, child)
          r3 == [nodes |-> [r2.nodes EXCEPT ![id].chips =
                                        @ \cup r2.nodes[child].chips],
                 log |-> Append(r2.log, [op |-> "add", node |-> child])]
      IN FinalizeChildren(r3, id, k + 1)

FinalizeNode(r, id) ==
    LET r1 == FinalizeChildren(r, id, 1)
    IN [r1 EXCEPT !.log = Append(@, [op |-> "finalized", node |-> id])]

\* The loop of Peripheral.finalize over the registers of node id, from the
\* k-th: register.finalize() alone.
RECURSIVE TreeFinalizeRegisters(_, _, _)
TreeFinalizeRegisters(r, id, k) ==
    IF k > Len(r.nodes[id].children) THEN r
    ELSE TreeFinalizeRegisters(FinalizeNode(r, r.nodes[id].children[k]),
                               id, k + 1)

\* finalize() on the root of the tree.  The peripheral of the tree carries
\* no instance, the sort of peripheral.py:209 has nothing to order.
TreePeripheralFinalize(r) ==
    LET r1 == TreeFinalizeRegisters(r, 1, 1)
    IN [r1 EXCEPT !.log = Append(@, [op |-> "finalized", node |-> 1])]

TreeFinalize ==
    /\ tree.phase = "built"
    /\ LET r == TreePeripheralFinalize([nodes |-> tree.nodes, log |-> << >>])
       IN /\ tree' = [phase |-> "finalized", nodes |-> r.nodes]
          /\ log' = r.log
    /\ UNCHANGED <<st, hist, last, pair, periph, comp>>

\* needs_define of node id.
NodeNeedsDefine(t, id) ==
    NeedsDefine(t[id].name # None, t[id].parent # 0, t[id].chips,
                IF t[id].parent # 0 THEN t[t[id].parent].chips ELSE {})

----------------------------------------------------------------------------
(* The correction hooks *)

\* The correction functions a table can name, and the lists of them.
CorrectionLists == { << >>, << "f" >>, << "f", "g" >> }

\* The externally supplied tables: for each node of register 2's subtree an
\* ordered list of correction functions.
CorrectorTables ==
    { [id \in 1..6 |-> IF id = 2 THEN l2 ELSE IF id = 3 THEN l3
                       ELSE IF id = 4 THEN l4 ELSE IF id = 5 THEN l5
                       ELSE << >>] :
        l2 \in CorrectionLists, l3 \in CorrectionLists,
        l4 \in CorrectionLists, l5 \in { << >>, << "f" >> } }

\* parent_corrector[self].  The corrector classes are not among the source
\* files; from the specification: the hooks are driven by one mapping from
\* node identity to an ordered list of functions, which every corrector
\* hands out whatever its own place.
CorrectorGetItem(table, parent_corrector, id) == table[id]

\* Component.before_svd_compile on node id (component.py:212-230): the
\* calls corrector(node) it makes, in order.  table is what the correctors
\* look nodes up in, parent_corrector the argument (None, the corrector the
\* pass was started with, or a correction function of the parent).
RECURSIVE HookNode(_, _, _, _)
RECURSIVE HookChildren(_, _, _, _, _)
RECURSIVE HookCorrectors(_, _, _, _, _)
HookChildren(t, table, id, corrector, k) ==
    IF k > Len(t[id].children) THEN << >>
    ELSE HookNode(t, table, t[id].children[k], corrector)
           \o HookChildren(t, table, id, corrector, k + 1)

HookCorrectors(t, table, id, correctors, k) ==
    IF k > Len(correctors) THEN << >>
    ELSE HookChildren(t, table, id, correctors[k], 1)
           \o << [fn |-> correctors[k], node |-> id] >>
           \o HookCorrectors(t, table, id, correctors, k + 1)

HookNode(t, table, id, parent_corrector) ==
    LET correctors == IF parent_corrector = None THEN << >>
                      ELSE CorrectorGetItem(table, parent_corrector, id)
    IN IF Len(correctors) > 0
       THEN HookCorrectors(t, table, id, correctors, 1)
       ELSE HookChildren(t, table, id, None, 1)

\* register.before_svd_compile(corrector) on register 2.  The correction
\* functions are supplied from outside and are taken to leave the names as
\* they are, so that the renaming of mapping elements that
\* Register.before_svd_compile adds (register.py:179-183) has nothing to do.
TreeBeforeSvdCompile(table) ==
    /\ tree.phase = "built"
    /\ tree' = [phase |-> "before", nodes |-> tree.nodes, table |-> table]
    /\ log' = HookNode(tree.nodes, table, 2, "top")
    /\ UNCHANGED <<st, hist, last, pair, periph, comp>>

\* register.after_svd_compile(corrector) on register 2
\* (component.py:242-261, the same statements as before_svd_compile).
TreeAfterSvdCompile(table) ==
    /\ tree.phase = "built"
    /\ tree' = [phase |-> "after", nodes |-> tree.nodes, table |-> table]
    /\ log' = HookNode(tree.nodes, table, 2, "top")
    /\ UNCHANGED <<st, hist, last, pair, periph, comp>>

----------------------------------------------------------------------------
(* Component.define *)

\* Component.alias of node id (component.py:145-157)
RECURSIVE Alias(_, _)
Alias(t, id) ==
    IF t[id].parent = 0 THEN t[id].name
    ELSE LET parent_alias == Alias(t, t[id].parent)
         IN IF parent_alias = None THEN t[id].name
            ELSE IF t[id].name = None THEN parent_alias
            ELSE parent_alias \o "_" \o t[id].name

\* The arguments of the call of component.py:193-197: defined_name is the
\* alias, defined_value is None and define_not false with it, undefine is
\* True but for a register (register.py:205-207).
DefineEntry(t, id) ==
    [alias |-> Alias(t, id), defined_value |-> None, define_not |-> FALSE,
     undefine |-> t[id].kind # "Register"]

\* The place of the key equal to chips in the dictionary, 0 when there is
\* none.  The dictionary is a list of [key, handler] in insertion order.
DefinesIndex(defines, chips) ==
    FirstOf({k \in 1..Len(defines) : ChipSetEq(defines[k].key, chips)})

\* DefinesHandler.add (structure/utils.py is not among the source files):
\* from the specification, a handler is an ordered list of guards that
\* never takes the same alias twice.
DefinesHandlerAdd(handler, entry) ==
    IF \E k \in 1..Len(handler) : handler[k].alias = entry.alias
    THEN handler
    ELSE Append(handler, entry)

\* A walk that records every node, whatever its needs_define.
DefineSelfAlways(t, id, defines) ==
    LET d1 == IF DefinesIndex(defines, t[id].chips) = 0
              THEN Append(defines, [key |-> t[id].chips, handler |-> << >>])
              ELSE defines
    IN [d1 EXCEPT ![DefinesIndex(d1, t[id].chips)].handler =
                      DefinesHandlerAdd(@, DefineEntry(t, id))]

\* The first statement of Component.define (component.py:190-197) on node id.
DefineSelf(t, id, defines) ==
    IF NodeNeedsDefine(t, id)
    THEN LET d1 == IF DefinesIndex(defines, t[id].chips) = 0
                   THEN Append(defines,
                               [key |-> t[id].chips, handler |-> << >>])
                   ELSE defines
         IN [d1 EXCEPT ![DefinesIndex(d1, t[id].chips)].handler =
                           DefinesHandlerAdd(@, DefineEntry(t, id))]
    ELSE defines

\* Component.define on node id (component.py:189-203): the node, then its
\* children in order.
RECURSIVE DefineNode(_, _, _)
RECURSIVE DefineChildren(_, _, _, _)
DefineChildren(t, id, defines, k) ==
    IF k > Len(t[id].children) THEN defines
    ELSE DefineChildren(t, id, DefineNode(t, t[id].children[k], defines),
                        k + 1)

DefineNode(t, id, defines) == DefineChildren(t, id, DefineSelf(t, id, defines), 1)

\* define(defines) on the root of the finalized tree, defines being an
\* empty dictionary.  The walk is Component.define at every node; the
\* peripheral has no parent and adds nothing for itself.
TreeDefine ==
    /\ tree.phase = "finalized"
    /\ tree' = [phase |-> "defined", nodes |-> tree.nodes,
                defines |-> DefineNode(tree.nodes, 1, << >>)]
    /\ UNCHANGED <<st, hist, last, pair, log, periph, comp>>

----------------------------------------------------------------------------
(* The operations on the tree *)

NextTree ==
    \/ TreeFinalize
    \/ TreeDefine
    \/ \E table \in CorrectorTables : TreeBeforeSvdCompile(table)
    \/ \E table \in CorrectorTables : TreeAfterSvdCompile(table)

SpecTree == InitTree /\ [][NextTree]_vars

----------------------------------------------------------------------------
(* C17: needs_define *)

\* The scope of the parent of node id, empty when there is no parent.
ParentChips(t, id) ==
    IF t[id].parent # 0 THEN t[t[id].parent].chips ELSE {}

\* C17: needs_define of a node is true exactly when the node has a name, has
\* a parent and its scope is not its parent's scope: false for a child whose
\* scope equals its parent's, true for a named child whose scope is a
\* non-empty strict part of its parent's, false for a node without a name or
\* without a parent.
C17_NeedsDefine ==
    \A id \in 1..Len(tree.nodes) :
        LET n == tree.nodes[id]
            pc == ParentChips(tree.nodes, id)
            nd == NodeNeedsDefine(tree.nodes, id)
        IN /\ nd <=> (n.name # None /\ n.parent # 0 /\ n.chips # pc)
           /\ (n.parent # 0 /\ n.chips = pc) => ~ nd
           /\ ( /\ n.name # None
                /\ n.parent # 0
                /\ n.chips # {}
                /\ n.chips \subseteq pc
                /\ n.chips # pc ) => nd
           /\ (n.name = None \/ n.parent = 0) => ~ nd

\* After finalize: field 4 is named and scoped to a strict part of its
\* variant's scope and needs a define, the unnamed variant 3, whose scope is
\* a strict part of its register's, needs none, and register 2, which has no
\* parent, needs none.
C17_Witness ==
    /\ tree.phase = "finalized"
    /\ tree.nodes[4].chips = {"X"}
    /\ tree.nodes[3].chips = {"X", "Y"}
    /\ NodeNeedsDefine(tree.nodes, 4)
    /\ tree.nodes[5].chips = {"X", "Y"}
    /\ ~ NodeNeedsDefine(tree.nodes, 5)
    /\ ~ NodeNeedsDefine(tree.nodes, 3)
    /\ ~ NodeNeedsDefine(tree.nodes, 2)

----------------------------------------------------------------------------
(* C18: finalize *)

\* C18: after finalize() on the root, every node is the parent of each of
\* its children, each child's finalize ended before its scope was added to
\* its parent's, and every node's scope holds the scope of each child.
C18_FinalizeAttachesAndUnions ==
    tree.phase = "finalized" =>
        \A id \in 1..Len(tree.nodes) :
            \A k \in 1..Len(tree.nodes[id].children) :
                LET c == tree.nodes[id].children[k]
                IN /\ tree.nodes[c].parent = id
                   /\ \E i \in 1..Len(log), j \in 1..Len(log) :
                         /\ log[i] = [op |-> "finalized", node |-> c]
                         /\ log[j] = [op |-> "add", node |-> c]
                         /\ i < j
                   /\ tree.nodes[c].chips \subseteq tree.nodes[id].chips

\* What holds of it: below the registers, where Component.finalize walks.
C18_BelowRegisters ==
    tree.phase = "finalized" =>
        \A id \in 2..Len(tree.nodes) :
            \A k \in 1..Len(tree.nodes[id].children) :
                LET c == tree.nodes[id].children[k]
                IN /\ tree.nodes[c].parent = id
                   /\ \E i \in 1..Len(log), j \in 1..Len(log) :
                         /\ log[i] = [op |-> "finalized", node |-> c]
                         /\ log[j] = [op |-> "add", node |-> c]
                         /\ i < j
                   /\ tree.nodes[c].chips \subseteq tree.nodes[id].chips

----------------------------------------------------------------------------
(* C19, C20: order and number of the corrections *)

RECURSIVE Descendants(_, _)
Descendants(t, id) ==
    UNION {{t[id].children[k]} \cup Descendants(t, t[id].children[k]) :
             k \in 1..Len(t[id].children)}

\* C19: in the before pass every correction of a node comes before every
\* correction of any of its descendants, in the after pass after all of
\* them.
C19_HookOrder ==
    /\ tree.phase = "before" =>
          \A i \in 1..Len(log), j \in 1..Len(log) :
              log[j].node \in Descendants(tree.nodes, log[i].node) => i < j
    /\ tree.phase = "after" =>
          \A i \in 1..Len(log), j \in 1..Len(log) :
              log[j].node \in Descendants(tree.nodes, log[i].node) => j < i

\* What holds of it: the after pass under a table that gives no node more
\* than one correction.
C19_AfterPassSingle ==
    ( /\ tree.phase = "after"
      /\ \A id \in 1..Len(tree.nodes) : Len(tree.table[id]) <= 1 ) =>
        \A i \in 1..Len(log), j \in 1..Len(log) :
            log[j].node \in Descendants(tree.nodes, log[i].node) => j < i

\* C20: in one pass no correction function is called twice on one node.
C20_AtMostOncePerNode ==
    tree.phase \in {"before", "after"} =>
        \A i \in 1..Len(log), j \in 1..Len(log) :
            i # j => log[i] # log[j]

----------------------------------------------------------------------------
(* Classification: the cleaners of create_association_table *)

\* A name that is None.  Names are sequences of characters; None is written
\* as a sequence that is not one.
NoName == << "None" >>

\* The string literals of the cleaners and the instance and group names of
\* the classified peripherals, as sequences of characters.
Str_TIM == << "T", "I", "M" >>
Str_TIM_ADVANCED == << "T", "I", "M", "_", "A", "D", "V", "A", "N", "C", "E", "D" >>
Str_TIM_BASIC == << "T", "I", "M", "_", "B", "A", "S", "I", "C" >>
Str_TIM_GENERAL_1 == << "T", "I", "M", "_", "G", "E", "N", "E", "R", "A", "L", "_", "1" >>
Str_TIM_GENERAL_2 == << "T", "I", "M", "_", "G", "E", "N", "E", "R", "A", "L", "_", "2" >>
Str_TIM_GENERAL_3 == << "T", "I", "M", "_", "G", "E", "N", "E", "R", "A", "L", "_", "3" >>
Str_TIM_GENERAL_4 == << "T", "I", "M", "_", "G", "E", "N", "E", "R", "A", "L", "_", "4" >>
Str_TIM_GENERAL_5 == << "T", "I", "M", "_", "G", "E", "N", "E", "R", "A", "L", "_", "5" >>
Str_TIM_GENERAL_6 == << "T", "I", "M", "_", "G", "E", "N", "E", "R", "A", "L", "_", "6" >>
Str_HRTIM_GENERIC == << "H", "R", "T", "I", "M", "_", "G", "E", "N", "E", "R", "I", "C" >>
Str_USB == << "U", "S", "B" >>
Str_USB_GENERIC == << "U", "S", "B", "_", "G", "E", "N", "E", "R", "I", "C" >>
Str_ETHERNET_GENERIC == << "E", "T", "H", "E", "R", "N", "E", "T", "_", "G", "E", "N", "E", "R", "I", "C" >>
Str_ADC == << "A", "D", "C" >>
Str_ADC_Common == << "A", "D", "C", "_", "C", "o", "m", "m", "o", "n" >>
Str_FMPI2C == << "F", "M", "P", "I", "2", "C" >>
Str_GPIO == << "G", "P", "I", "O" >>
Str_GPIO_OLD == << "G", "P", "I", "O", "_", "O", "L", "D" >>
Str_GPIO_DBG == << "G", "P", "I", "O", "_", "D", "B", "G" >>
Str__HS == << "_", "H", "S" >>
Str__FS == << "_", "F", "S" >>
Str__GLOBAL == << "_", "G", "L", "O", "B", "A", "L" >>
Str__HOST == << "_", "H", "O", "S", "T" >>
Str__DEVICE == << "_", "D", "E", "V", "I", "C", "E" >>
Str__PWRCLK == << "_", "P", "W", "R", "C", "L", "K" >>
Str_common == << "c", "o", "m", "m", "o", "n" >>
Str_TIM1 == << "T", "I", "M", "1" >>
Str_LPTIM1 == << "L", "P", "T", "I", "M", "1" >>
Str_HRTIM1 == << "H", "R", "T", "I", "M", "1" >>
Str_OTG_HS == << "O", "T", "G", "_", "H", "S" >>
Str_OTG_FS_GLOBAL == << "O", "T", "G", "_", "F", "S", "_", "G", "L", "O", "B", "A", "L" >>
Str_ADC1 == << "A", "D", "C", "1" >>
Str_ADC12 == << "A", "D", "C", "1", "2" >>
Str_I2C1 == << "I", "2", "C", "1" >>
Str_GPIOA == << "G", "P", "I", "O", "A" >>
Str_ETH == << "E", "T", "H" >>
Str_RCC == << "R", "C", "C" >>
Str_HRTIM == << "H", "R", "T", "I", "M" >>
Str_ETHERNET == << "E", "T", "H", "E", "R", "N", "E", "T" >>
Str_I2C == << "I", "2", "C" >>

UpperCase == << "A", "B", "C", "D", "E", "F", "G", "H", "I", "J", "K", "L",
                "M", "N", "O", "P", "Q", "R", "S", "T", "U", "V", "W", "X",
                "Y", "Z" >>

LowerCase == << "a", "b", "c", "d", "e", "f", "g", "h", "i", "j", "k", "l",
                "m", "n", "o", "p", "q", "r", "s", "t", "u", "v", "w", "x",
                "y", "z" >>

Digits == {"0", "1", "2", "3", "4", "5", "6", "7", "8", "9"}

\* str.lower()
Lower(str) ==
    [i \in 1..Len(str) |->
        LET k == FirstOf({j \in 1..Len(UpperCase) : UpperCase[j] = str[i]})
        IN IF k = 0 THEN str[i] ELSE LowerCase[k]]

\* str.startswith(prefix)
StartsWith(str, prefix) ==
    /\ Len(prefix) <= Len(str)
    /\ \A i \in 1..Len(prefix) : str[i] = prefix[i]

\* sub in str
Contains(str, sub) ==
    \E k \in 0..(Len(str) - Len(sub)) :
        \A i \in 1..Len(sub) : str[k + i] = sub[i]

\* A character of the class \w
IsWordChar(ch) ==
    \/ ch \in Digits
    \/ ch = "_"
    \/ \E j \in 1..Len(UpperCase) : ch = UpperCase[j] \/ ch = LowerCase[j]

\* re.match(r"^ADC\d[\w_]*\d", str): a prefix of str is ADC, a digit, any
\* number of word characters, a digit.
MatchesAdcNumbered(str) ==
    /\ StartsWith(str, Str_ADC)
    /\ Len(str) >= 5
    /\ str[4] \in Digits
    /\ \E k \in 5..Len(str) :
          /\ str[k] \in Digits
          /\ \A i \in 5..(k - 1) : IsWordChar(str[i])

\* "x" in periph: a register of the peripheral carries the name.
HasRegister(p, n) == \E i \in 1..Len(p.regs) : p.regs[i] = n

TIM_GENERAL_decider(p) ==
    IF HasRegister(p, "CCMR2_Input")
    THEN [p EXCEPT !.name = Str_TIM_GENERAL_1]
    ELSE IF HasRegister(p, "BDTR")
    THEN IF HasRegister(p, "CCR2")
         THEN [p EXCEPT !.name = Str_TIM_GENERAL_2]
         ELSE [p EXCEPT !.name = Str_TIM_GENERAL_3]
    ELSE IF HasRegister(p, "CCR2")
    THEN IF HasRegister(p, "CR2")
         THEN [p EXCEPT !.name = Str_TIM_GENERAL_4]
         ELSE [p EXCEPT !.name = Str_TIM_GENERAL_5]
    ELSE [p EXCEPT !.name = Str_TIM_GENERAL_6]

\* The register names of the basic and of the advanced timer, in the order
\* of the first mapping.
BasicElements == << "CR1", "CR2", "DIER", "SR", "EGR", "CNT", "PSC", "ARR" >>

AdvancedElements ==
    << "CR1", "CR2", "SMCR", "DIER", "SR", "EGR", "CCMR1_Output",
       "CCMR2_Output", "CCER", "CNT", "PSC", "ARR", "RCR", "CCR1", "CCR2",
       "CCR3", "CCR4", "BDTR" >>

\* The test of peripheral_cleaners.py:44-47 on the element names.  The
\* register names are not split into characters: the names that hold CCMR1
\* and CCMR2 are listed.
LooksAdvanced(elements) ==
    /\ Len(elements) >= 18
    /\ SubSeq(elements, 1, 6) = SubSeq(AdvancedElements, 1, 6)
    /\ elements[7] \in {"CCMR1", "CCMR1_Output", "CCMR1_Input"}
    /\ elements[8] \in {"CCMR2", "CCMR2_Output", "CCMR2_Input"}
    /\ SubSeq(elements, 9, 18) = SubSeq(AdvancedElements, 9, 18)

\* The brief is a sequence of lower-case words, as Peripheral.__init__
\* leaves it; brief[-5:] == "timer" is the last word being timer (no other
\* word of the briefs below ends with it).
TIM_periph_cleaner(p) ==
    IF ~ StartsWith(p.instances[1], Str_TIM) THEN p
    ELSE
      LET brief_tokens == p.brief
          p1 == IF Len(p.brief) > 0 /\ p.brief[Len(p.brief)] = "timer"
                THEN [p EXCEPT !.brief[Len(p.brief)] = "timers"]
                ELSE p
      IN IF "advanced" \in Range(brief_tokens)
         THEN [p1 EXCEPT !.name = Str_TIM_ADVANCED]
         ELSE IF "basic" \in Range(brief_tokens)
         THEN [p1 EXCEPT !.name = Str_TIM_BASIC]
         ELSE IF "general" \in Range(brief_tokens)
         THEN TIM_GENERAL_decider(p1)
         ELSE IF p1.regs = BasicElements
         THEN [p1 EXCEPT !.name = Str_TIM_BASIC]
         ELSE IF LooksAdvanced(p1.regs)
         THEN [p1 EXCEPT !.name = Str_TIM_ADVANCED]
         ELSE TIM_GENERAL_decider(p1)

HRTIM_periph_cleaner(p) ==
    IF Len(p.instances) = 1
    THEN [p EXCEPT !.name = p.instances[1]]
    ELSE [p EXCEPT !.name = Str_HRTIM_GENERIC]

USB_periph_cleaner(p) ==
    LET i0 == p.instances[1]
        speed == IF Contains(i0, Str__HS) THEN Str__HS
                 ELSE IF Contains(i0, Str__FS) THEN Str__FS
                 ELSE << >>
        role == IF Contains(i0, Str__GLOBAL) THEN Str__GLOBAL
                ELSE IF Contains(i0, Str__HOST) THEN Str__HOST
                ELSE IF Contains(i0, Str__DEVICE) THEN Str__DEVICE
                ELSE IF Contains(i0, Str__PWRCLK) THEN Str__PWRCLK
                ELSE << >>
        periph_name == Str_USB \o speed \o role
    IN IF Len(periph_name) > 3
       THEN [p EXCEPT !.name = periph_name]
       ELSE IF Len(p.instances) = 1
       THEN [p EXCEPT !.name = p.instances[1]]
       ELSE [p EXCEPT !.name = Str_USB_GENERIC]

ETHERNET_periph_cleaner(p) ==
    IF Len(p.instances) = 1
    THEN [p EXCEPT !.name = p.instances[1]]
    ELSE [p EXCEPT !.name = Str_ETHERNET_GENERIC]

ADC_periph_cleaner(p) ==
    LET common ==
          \/ "common" \in Range(p.brief)
          \/ MatchesAdcNumbered(p.instances[1])
          \/ \E i \in 1..Len(p.instances) :
                Contains(Lower(p.instances[i]), Str_common)
    IN IF common
       THEN [p EXCEPT !.name = Str_ADC_Common]
       ELSE [p EXCEPT !.name = Str_ADC]

DEFAULT_create_cleaner(p) == [p EXCEPT !.name = p.group_name]

I2C_periph_cleaner(p) ==
    IF /\ HasRegister(p, "TIMINGR")
       /\ HasRegister(p, "TIMEOUTR")
       /\ HasRegister(p, "PECR")
    THEN [p EXCEPT !.name = Str_FMPI2C]
    ELSE p

GPIO_periph_cleaner(p) ==
    IF HasRegister(p, "CRL") THEN [p EXCEPT !.name = Str_GPIO_OLD]
    ELSE IF HasRegister(p, "PCTRACECR") THEN [p EXCEPT !.name = Str_GPIO_DBG]
    ELSE [p EXCEPT !.name = Str_GPIO]

\* create_association_table: the cleaner of group g applied to p, the
\* default one for a group that is not a key.
create_association_table(g, p) ==
    IF g = "TIM" THEN TIM_periph_cleaner(p)
    ELSE IF g = "HRTIM" THEN HRTIM_periph_cleaner(p)
    ELSE IF g = "USB" THEN USB_periph_cleaner(p)
    ELSE IF g = "ETHERNET" THEN ETHERNET_periph_cleaner(p)
    ELSE IF g = "ADC" THEN ADC_periph_cleaner(p)
    ELSE IF g = "I2C" THEN I2C_periph_cleaner(p)
    ELSE IF g = "GPIO" THEN GPIO_periph_cleaner(p)
    ELSE DEFAULT_create_cleaner(p)

\* The groups of the classified peripherals; RCC is not a key of the table.
CleanGroups ==
    {"TIM", "HRTIM", "USB", "ETHERNET", "ADC", "I2C", "GPIO", "RCC"}

GroupName(g) ==
    IF g = "TIM" THEN Str_TIM
    ELSE IF g = "HRTIM" THEN Str_HRTIM
    ELSE IF g = "USB" THEN Str_USB
    ELSE IF g = "ETHERNET" THEN Str_ETHERNET
    ELSE IF g = "ADC" THEN Str_ADC
    ELSE IF g = "I2C" THEN Str_I2C
    ELSE IF g = "GPIO" THEN Str_GPIO
    ELSE Str_RCC

\* Instance names found in a group.
GroupInstanceNames(g) ==
    IF g = "TIM" THEN {Str_TIM1, Str_LPTIM1}
    ELSE IF g = "HRTIM" THEN {Str_HRTIM1}
    ELSE IF g = "USB" THEN {Str_USB, Str_OTG_HS, Str_OTG_FS_GLOBAL}
    ELSE IF g = "ETHERNET" THEN {Str_ETH}
    ELSE IF g = "ADC" THEN {Str_ADC1, Str_ADC12, Str_ADC_Common}
    ELSE IF g = "I2C" THEN {Str_I2C1}
    ELSE IF g = "GPIO" THEN {Str_GPIOA}
    ELSE {Str_RCC}

\* One or two instances.
CleanInstances(g) ==
    {<< n >> : n \in GroupInstanceNames(g)}
      \cup {<< n, m >> : n \in GroupInstanceNames(g),
                         m \in GroupInstanceNames(g)}

CleanBriefs ==
    { << "advanced", "control", "timer" >>,
      << "basic", "timer" >>,
      << "general", "purpose", "timer" >>,
      << "low", "power", "timer" >>,
      << "adc", "common" >>,
      << "controller" >> }

\* Register names, in the order of the first mapping.
CleanRegisters ==
    { << >>, BasicElements, AdvancedElements,
      << "CR1", "CCMR2_Input" >>, << "BDTR", "CCR2" >>, << "BDTR" >>,
      << "CCR2", "CR2" >>, << "CCR2" >>,
      << "TIMINGR", "TIMEOUTR", "PECR" >>, << "TIMINGR" >>,
      << "CRL" >>, << "PCTRACECR" >> }

\* A peripheral before classification: at least one instance, a
\* description, no name.
InitClean ==
    /\ st = EmptyHeap
    /\ hist = << >>
    /\ last = NoRecord
    /\ pair = NoRecord
    /\ tree = NoTree
    /\ log = << >>
    /\ comp = NoRecord
    /\ \E g \in CleanGroups, b \in CleanBriefs, r \in CleanRegisters :
         \E i \in CleanInstances(g) :
            periph = [phase |-> "built", group |-> g,
                      group_name |-> GroupName(g), instances |-> i,
                      brief |-> b, regs |-> r, name |-> NoName]

\* The cleaner registered for the peripheral's group is applied to it.
Classify ==
    /\ periph.phase = "built"
    /\ periph' = [create_association_table(periph.group, periph)
                    EXCEPT !.phase = "classified"]
    /\ UNCHANGED <<st, hist, last, pair, tree, log, comp>>

NextClean == Classify

SpecClean == InitClean /\ [][NextClean]_vars

----------------------------------------------------------------------------
(* C21: classification is total *)

\* C21: after the cleaner of its group ran on a peripheral with at least
\* one instance, a description and no name, the peripheral has a name.
C21_ClassificationTotal ==
    periph.phase = "classified" => periph.name # NoName

\* What holds of it: the cleaners other than the TIM and the I2C one always
\* name the peripheral.
C21_TotalButTimAndI2c ==
    (periph.phase = "classified" /\ periph.group \notin {"TIM", "I2C"})
        => periph.name # NoName

----------------------------------------------------------------------------
(* The name of a component *)

\* The length of the names handed to the setter.
MaxNameLen == 3

\* A letter of each case, a digit, the underscore, the two brackets the
\* setter rewrites, and a character that no identifier holds.
NameChars == {"A", "b", "1", "_", "[", "]", "-"}

NameInputs ==
    {NoName} \cup UNION {[1..n -> NameChars] : n \in 0..MaxNameLen}

\* A setter that marks the component whatever the name it is given.
ComponentSetNameAlways(c, new) ==
    [c EXCEPT !.name = IF new # NoName THEN Sanitize(new) ELSE new,
              !.edited = TRUE]

\* Component.name setter (component.py:57-65) with new either None or a
\* string.  The test of line 62 only logs.
ComponentSetName(c, new) ==
    IF new # c.name
    THEN [c EXCEPT !.name = IF new # NoName THEN Sanitize(new) ELSE new,
                   !.edited = TRUE]
    ELSE c

\* Component(name = n): _name starts None and edited True, then the name
\* goes through the setter.
NewComponent(n) ==
    ComponentSetName([name |-> NoName, edited |-> TRUE], n)

InitName ==
    /\ st = EmptyHeap
    /\ hist = << >>
    /\ last = NoRecord
    /\ pair = NoRecord
    /\ tree = NoTree
    /\ log = << >>
    /\ periph = NoRecord
    /\ \E n \in NameInputs : comp = NewComponent(n)

\* component.name = new: by a cleaner, by the automatic rename or by a
\* correction function.
AssignName(new) ==
    /\ comp' = ComponentSetName(comp, new)
    /\ UNCHANGED <<st, hist, last, pair, tree, log, periph>>

\* component.validate_edit() on a component without children.
ClearEdited ==
    /\ comp' = [comp EXCEPT !.edited = FALSE]
    /\ UNCHANGED <<st, hist, last, pair, tree, log, periph>>

NextName ==
    \/ \E new \in NameInputs : AssignName(new)
    \/ ClearEdited

SpecName == InitName /\ [][NextName]_vars

\* str.isidentifier() on a string of the characters above.
IsIdentifier(str) ==
    /\ Len(str) > 0
    /\ str[1] \notin Digits
    /\ \A i \in 1..Len(str) : IsWordChar(str[i])

----------------------------------------------------------------------------
(* C22: the name is an identifier *)

\* C22: in every reachable state a name that is not None is a valid
\* identifier.
C22_NameIsIdentifier ==
    comp.name # NoName => IsIdentifier(comp.name)

\* What holds of it: the setter leaves no bracket in a name.
C22_NoBracketInName ==
    comp.name # NoName =>
        \A i \in 1..Len(comp.name) : comp.name[i] \notin {"[", "]"}

----------------------------------------------------------------------------
(* Registers and their variants (register.py)                              *)
(*                                                                         *)
(* A register is a record [name, edited, variants]; a variant is a record  *)
(* [name, fields, for_template, edited, brief]; a field is a record        *)
(* [name, pos, edited] of width one bit.  chips, size and access play no   *)
(* part in the list of variants and are left out.                          *)

MaxVariants == 3

Field(n, p) == [name |-> n, pos |-> p, edited |-> TRUE]

\* The fields the documents provide: F and G share bit 0, H sits at bit 1.
FieldInputs == {Field(<<"F">>, 0), Field(<<"G">>, 0), Field(<<"H">>, 1)}

\* RegisterVariant(): no name, no field, not for a template, edited as
\* every new component, no brief.
NewVariant ==
    [name |-> NoName, fields |-> << >>, for_template |-> FALSE,
     edited |-> TRUE, brief |-> None]

Variant(fs, tmpl) == [NewVariant EXCEPT !.fields = fs, !.for_template = tmpl]

\* The variants a document or a correction provides.
VariantInputs ==
    { Variant(<< Field(<<"F">>, 0) >>, FALSE),
      Variant(<< Field(<<"G">>, 0) >>, FALSE),
      Variant(<< Field(<<"F">>, 0), Field(<<"H">>, 1) >>, FALSE),
      Variant(<< >>, TRUE),
      Variant(<< Field(<<"G">>, 0) >>, TRUE) }

FieldKeys(v) == {<< v.fields[i].name, v.fields[i].pos >> : i \in 1..Len(v.fields)}

\* field in variant: the variant holds a field of that name at that place.
FieldIn(f, v) == << f.name, f.pos >> \in FieldKeys(v)

\* variant.has_room_for(field): no field of the variant covers the bit.
HasRoomFor(v, f) == \A i \in 1..Len(v.fields) : v.fields[i].pos # f.pos

\* variant == variant: the same set of fields.
VariantEq(a, b) == FieldKeys(a) = FieldKeys(b)

\* variant.add_field(field)
VariantAddField(v, f) == [v EXCEPT !.fields = Append(@, f)]

\* Register(name = n): no variant, edited.
EmptyRegister(n) == [name |-> n, edited |-> TRUE, variants |-> << >>]

HasTemplate(r) == \E i \in 1..Len(r.variants) : r.variants[i].for_template

TemplateCount(r) ==
    Cardinality({i \in 1..Len(r.variants) : r.variants[i].for_template})

\* Register.add_variant (register.py:149-152)
RegisterAddVariant(r, variant) ==
    [r EXCEPT !.variants = Append(@, variant), !.edited = TRUE]

\* Register.add_field (register.py:129-147): the first variant, among those
\* not skipped, that holds the field or has room for it decides.
RegisterAddField(r, f, in_xml_node) ==
    LET cand == {i \in 1..Len(r.variants) :
                    /\ ~ ((~ in_xml_node) /\ r.variants[i].for_template)
                    /\ (FieldIn(f, r.variants[i]) \/ HasRoomFor(r.variants[i], f))}
        i == FirstOf(cand)
    IN  IF i = 0
        THEN LET r2 == RegisterAddVariant(r, NewVariant)
             IN  [r2 EXCEPT !.variants[Len(r2.variants)] = VariantAddField(@, f)]
        ELSE IF FieldIn(f, r.variants[i])
        THEN r
        ELSE [r EXCEPT !.variants[i] = VariantAddField(@, f)]

RECURSIVE AddVariantsFrom(_, _, _)
AddVariantsFrom(r, vs, k) ==
    IF k > Len(vs) THEN r
    ELSE AddVariantsFrom(RegisterAddVariant(r, vs[k]), vs, k + 1)

\* Register.intra_svd_merge (register.py:154-156)
RegisterIntraSvdMerge(r, other) == AddVariantsFrom(r, other.variants, 1)

RECURSIVE AddFieldsFrom(_, _, _)
AddFieldsFrom(r, fs, k) ==
    IF k > Len(fs) THEN r
    ELSE AddFieldsFrom(RegisterAddField(r, fs[k], FALSE), fs, k + 1)

\* One turn of the loop of Register.inter_svd_merge (register.py:162-174).
InterMergeVariant(r, o_v) ==
    IF \E i \in 1..Len(r.variants) : VariantEq(o_v, r.variants[i])
    THEN r
    ELSE IF o_v.for_template
    THEN RegisterAddVariant(r, o_v)
    ELSE AddFieldsFrom(r, o_v.fields, 1)

RECURSIVE InterMergeFrom(_, _, _)
InterMergeFrom(r, vs, k) ==
    IF k > Len(vs) THEN r
    ELSE InterMergeFrom(InterMergeVariant(r, vs[k]), vs, k + 1)

\* Register.inter_svd_merge (register.py:158-174)
RegisterInterSvdMerge(r, other) == InterMergeFrom(r, other.variants, 1)

\* list.pop(i) with i counted from 0.
PopAt(seq, i) == SubSeq(seq, 1, i) \o SubSeq(seq, i + 2, Len(seq))

\* The loop of Register.svd_compile that pops the variant and then moves on
\* to the next offset all the same.
SvdCompileStepSkipping(s) ==
    IF s.pc = "outer"
    THEN IF s.var_index < Len(s.variants) - 1
         THEN [s EXCEPT !.var_offset = 1, !.pc = "inner"]
         ELSE [s EXCEPT !.pc = "done"]
    ELSE IF s.var_index + s.var_offset < Len(s.variants)
    THEN IF VariantEq(s.variants[s.var_index + 1],
                      s.variants[s.var_index + s.var_offset + 1])
         THEN [s EXCEPT !.variants = PopAt(@, s.var_index + s.var_offset),
                        !.edited = TRUE,
                        !.var_offset = @ + 1]
         ELSE [s EXCEPT !.var_offset = @ + 1]
    ELSE [s EXCEPT !.var_index = @ + 1, !.pc = "outer"]

\* One test of a while condition of Register.svd_compile
\* (register.py:188-199) and the body it leads to.  pc is the loop whose
\* condition comes next.
SvdCompileStep(s) ==
    IF s.pc = "outer"
    THEN IF s.var_index < Len(s.variants) - 1
         THEN [s EXCEPT !.var_offset = 1, !.pc = "inner"]
         ELSE [s EXCEPT !.pc = "done"]
    ELSE IF s.var_index + s.var_offset < Len(s.variants)
    THEN IF VariantEq(s.variants[s.var_index + 1],
                      s.variants[s.var_index + s.var_offset + 1])
         THEN [s EXCEPT !.variants = PopAt(@, s.var_index + s.var_offset),
                        !.edited = TRUE]
         ELSE [s EXCEPT !.var_offset = @ + 1]
    ELSE [s EXCEPT !.var_index = @ + 1, !.pc = "outer"]

\* svd_compile is entered with var_index = 0.
SvdCompileEnter(variants, edited) ==
    [variants |-> variants, edited |-> edited,
     var_index |-> 0, var_offset |-> 0, pc |-> "outer"]

RECURSIVE SvdCompileRun(_)
SvdCompileRun(s) ==
    IF s.pc = "done" THEN s ELSE SvdCompileRun(SvdCompileStep(s))

\* Register.svd_compile (register.py:185-199) from call to return.
RegisterSvdCompile(r) ==
    LET s == SvdCompileRun(SvdCompileEnter(r.variants, r.edited))
    IN  [r EXCEPT !.variants = s.variants, !.edited = s.edited]

\* The registers a merge receives: one or two variants, at most one of them
\* for a template.
OtherRegisters ==
    { r \in { [EmptyRegister(<<"R">>) EXCEPT !.variants = vs] :
                vs \in UNION {[1..n -> VariantInputs] : n \in 1..2} } :
        TemplateCount(r) <= 1 }

InitReg ==
    /\ st = EmptyHeap
    /\ hist = << >>
    /\ last = NoRecord
    /\ pair = NoRecord
    /\ tree = NoTree
    /\ log = << >>
    /\ periph = NoRecord
    /\ comp = [reg |-> EmptyRegister(<<"R">>), op |-> "init"]

\* register.add_variant(v); a template variant is handed to a register
\* that has none.
AddVariant(v) ==
    /\ Len(comp.reg.variants) < MaxVariants
    /\ v.for_template => ~ HasTemplate(comp.reg)
    /\ comp' = [reg |-> RegisterAddVariant(comp.reg, v), op |-> "add_variant"]
    /\ UNCHANGED <<st, hist, last, pair, tree, log, periph>>

\* register.add_field(f, in_xml_node)
AddField(f, in_xml_node) ==
    /\ Len(RegisterAddField(comp.reg, f, in_xml_node).variants) <= MaxVariants
    /\ comp' = [reg |-> RegisterAddField(comp.reg, f, in_xml_node),
                op |-> "add_field"]
    /\ UNCHANGED <<st, hist, last, pair, tree, log, periph>>

\* register.intra_svd_merge(other)
IntraSvdMerge(other) ==
    /\ Len(comp.reg.variants) + Len(other.variants) <= MaxVariants
    /\ comp' = [reg |-> RegisterIntraSvdMerge(comp.reg, other),
                op |-> "intra_svd_merge"]
    /\ UNCHANGED <<st, hist, last, pair, tree, log, periph>>

\* register.inter_svd_merge(other)
InterSvdMerge(other) ==
    /\ Len(RegisterInterSvdMerge(comp.reg, other).variants) <= MaxVariants
    /\ comp' = [reg |-> RegisterInterSvdMerge(comp.reg, other),
                op |-> "inter_svd_merge"]
    /\ UNCHANGED <<st, hist, last, pair, tree, log, periph>>

\* register.svd_compile()
SvdCompile ==
    /\ comp' = [reg |-> RegisterSvdCompile(comp.reg), op |-> "svd_compile"]
    /\ UNCHANGED <<st, hist, last, pair, tree, log, periph>>

NextReg ==
    \/ \E v \in VariantInputs : AddVariant(v)
    \/ \E f \in FieldInputs, in_xml_node \in BOOLEAN : AddField(f, in_xml_node)
    \/ \E other \in OtherRegisters : IntraSvdMerge(other)
    \/ \E other \in OtherRegisters : InterSvdMerge(other)
    \/ SvdCompile

SpecReg == InitReg /\ [][NextReg]_vars

----------------------------------------------------------------------------
(* C23: at most one variant for a template *)

\* C23: after any sequence of add_field, add_variant, intra_svd_merge,
\* inter_svd_merge and svd_compile on registers that each start with at
\* most one template variant, the register holds at most one variant
\* marked for a template.
C23_AtMostOneTemplate == TemplateCount(comp.reg) <= 1

\* What holds of it: once a register has a template variant, only a merge
\* gives it another one.
C23_SecondTemplateFromMerge ==
    [][(TemplateCount(comp.reg) >= 1
            /\ TemplateCount(comp'.reg) > TemplateCount(comp.reg))
        => comp'.op \in {"intra_svd_merge", "inter_svd_merge"}]_vars

----------------------------------------------------------------------------
(* Register.svd_compile, one test of a loop condition at a time *)

\* The i-th variant of a list under compilation: one of the variants above,
\* told from its equals by its brief, which takes no part in the comparison.
Described(v, i) == [v EXCEPT !.brief = ToString(i)]

\* The lists of variants svd_compile is called on.
CompileInputs ==
    UNION { { [i \in 1..n |-> Described(vs[i], i)] :
                vs \in [1..n -> VariantInputs] } : n \in 0..MaxVariants }

InitCompile ==
    /\ st = EmptyHeap
    /\ hist = << >>
    /\ last = NoRecord
    /\ pair = NoRecord
    /\ tree = NoTree
    /\ log = << >>
    /\ periph = NoRecord
    /\ \E vs \in CompileInputs, e \in BOOLEAN :
          comp = [loop |-> SvdCompileEnter(vs, e), start |-> vs, was |-> e]

\* The interpreter runs the next test of the loop and its body.
CompileStep ==
    /\ comp.loop.pc # "done"
    /\ comp' = [comp EXCEPT !.loop = SvdCompileStep(@)]
    /\ UNCHANGED <<st, hist, last, pair, tree, log, periph>>

NextCompile == CompileStep

\* A call that was started goes on until it returns.
SpecCompile == InitCompile /\ [][NextCompile]_vars /\ WF_vars(NextCompile)

\* The places of a list whose variant equals no earlier one.
FirstPlaces(vs) ==
    {i \in 1..Len(vs) : \A j \in 1..(i - 1) : ~ VariantEq(vs[j], vs[i])}

RECURSIVE FirstsFrom(_, _)
FirstsFrom(vs, k) ==
    IF k > Len(vs) THEN << >>
    ELSE (IF k \in FirstPlaces(vs) THEN << vs[k] >> ELSE << >>)
            \o FirstsFrom(vs, k + 1)

NoTwoEqual(vs) ==
    \A i \in 1..Len(vs) : \A j \in (i + 1)..Len(vs) : ~ VariantEq(vs[i], vs[j])

CompileReturned == comp.loop.pc = "done"

CompilePost ==
    /\ NoTwoEqual(comp.loop.variants)
    /\ comp.loop.variants = FirstsFrom(comp.start, 1)
    /\ Len(comp.loop.variants) < Len(comp.start) => comp.loop.edited

----------------------------------------------------------------------------
(* C25: svd_compile returns a list without duplicates *)

\* C25: Register.svd_compile returns for every list of variants, and when
\* it has returned no two variants left are equal: of the variants equal to
\* one another the earliest of the list is the one left, the variants left
\* stand in the order they had, and the register is edited whenever a
\* variant was removed.
C25_CompileReturnsWithoutDuplicates ==
    /\ <>CompileReturned
    /\ [](CompileReturned => CompilePost)

\* A call has returned after removing a variant that stood between two
\* variants it kept.
C25_Witness ==
    /\ CompileReturned
    /\ Len(comp.start) = 3
    /\ Len(comp.loop.variants) = 2
    /\ comp.loop.variants = << comp.start[1], comp.start[3] >>
    /\ ~ comp.was
    /\ comp.loop.edited

\* A call has returned from a list of three equal variants.
C25_WitnessThreeEqual ==
    /\ CompileReturned
    /\ Len(comp.start) = 3
    /\ Len(comp.loop.variants) = 1

----------------------------------------------------------------------------
(* Dirty tracking (component.py:57-84) on a register, its variants and     *)
(* their fields                                                            *)

MaxDirtyVariants == 2

\* Component.has_been_edited (component.py:67-76) of a variant: its own
\* flag, then its fields, which have no children.
VariantHasBeenEdited(v) ==
    v.edited \/ \E k \in 1..Len(v.fields) : v.fields[k].edited

\* Component.has_been_edited of a register.
RegisterHasBeenEdited(r) ==
    r.edited \/ \E i \in 1..Len(r.variants) : VariantHasBeenEdited(r.variants[i])

\* Component.validate_edit (component.py:78-84) of a field.
FieldValidateEdit(f) == [f EXCEPT !.edited = FALSE]

\* Component.validate_edit of a variant: its own flag, then each field.
VariantValidateEdit(v) ==
    [v EXCEPT !.edited = FALSE,
              !.fields = [k \in 1..Len(v.fields) |-> FieldValidateEdit(v.fields[k])]]

\* Component.validate_edit of a register.
RegisterValidateEdit(r) ==
    [r EXCEPT !.edited = FALSE,
              !.variants = [i \in 1..Len(r.variants) |->
                                VariantValidateEdit(r.variants[i])]]

\* The names given to a register or to a field.
DirtyNames == {<<"F">>, <<"G">>, <<"F", "]">>}

\* The variants added to the register.
DirtyVariantInputs ==
    { Variant(<< Field(<<"F">>, 0) >>, FALSE),
      Variant(<< Field(<<"G">>, 0) >>, FALSE) }

\* The last operation: its kind, the node it was called on (level, variant
\* i, field k), has_been_edited of that node before the call, and whether
\* the call changed something (another name, a variant removed).
Op(kind, level, i, k, was, changed) ==
    [kind |-> kind, level |-> level, i |-> i, k |-> k,
     was |-> was, changed |-> changed]

InitDirty ==
    /\ st = EmptyHeap
    /\ hist = << >>
    /\ last = NoRecord
    /\ pair = NoRecord
    /\ tree = NoTree
    /\ log = << >>
    /\ periph = NoRecord
    /\ comp = [reg |-> EmptyRegister(<<"R">>),
               op |-> Op("init", "register", 0, 0, TRUE, FALSE)]

\* register.validate_edit()
ValidateRegister ==
    /\ comp' = [reg |-> RegisterValidateEdit(comp.reg),
                op |-> Op("validate_edit", "register", 0, 0,
                          RegisterHasBeenEdited(comp.reg), FALSE)]
    /\ UNCHANGED <<st, hist, last, pair, tree, log, periph>>

\* variant.validate_edit() on the i-th variant
ValidateVariant(i) ==
    /\ comp' = [reg |-> [comp.reg EXCEPT !.variants[i] = VariantValidateEdit(@)],
                op |-> Op("validate_edit", "variant", i, 0,
                          VariantHasBeenEdited(comp.reg.variants[i]), FALSE)]
    /\ UNCHANGED <<st, hist, last, pair, tree, log, periph>>

\* field.validate_edit() on the k-th field of the i-th variant
ValidateField(i, k) ==
    /\ comp' = [reg |-> [comp.reg EXCEPT !.variants[i].fields[k] =
                                            FieldValidateEdit(@)],
                op |-> Op("validate_edit", "field", i, k,
                          comp.reg.variants[i].fields[k].edited, FALSE)]
    /\ UNCHANGED <<st, hist, last, pair, tree, log, periph>>

\* register.name = new
RenameRegister(new) ==
    /\ comp' = [reg |-> ComponentSetName(comp.reg, new),
                op |-> Op("name", "register", 0, 0,
                          RegisterHasBeenEdited(comp.reg),
                          new # comp.reg.name)]
    /\ UNCHANGED <<st, hist, last, pair, tree, log, periph>>

\* field.name = new on the k-th field of the i-th variant
RenameField(i, k, new) ==
    /\ comp' = [reg |-> [comp.reg EXCEPT !.variants[i].fields[k] =
                                            ComponentSetName(@, new)],
                op |-> Op("name", "field", i, k,
                          comp.reg.variants[i].fields[k].edited,
                          new # comp.reg.variants[i].fields[k].name)]
    /\ UNCHANGED <<st, hist, last, pair, tree, log, periph>>

\* register.add_variant(v)
DirtyAddVariant(v) ==
    /\ Len(comp.reg.variants) < MaxDirtyVariants
    /\ comp' = [reg |-> RegisterAddVariant(comp.reg, v),
                op |-> Op("add_variant", "register", 0, 0,
                          RegisterHasBeenEdited(comp.reg), TRUE)]
    /\ UNCHANGED <<st, hist, last, pair, tree, log, periph>>

\* register.svd_compile()
DirtySvdCompile ==
    /\ comp' = [reg |-> RegisterSvdCompile(comp.reg),
                op |-> Op("svd_compile", "register", 0, 0,
                          RegisterHasBeenEdited(comp.reg),
                          Len(RegisterSvdCompile(comp.reg).variants)
                              < Len(comp.reg.variants))]
    /\ UNCHANGED <<st, hist, last, pair, tree, log, periph>>

NextDirty ==
    \/ ValidateRegister
    \/ \E i \in 1..Len(comp.reg.variants) : ValidateVariant(i)
    \/ \E i \in 1..Len(comp.reg.variants) :
          \E k \in 1..Len(comp.reg.variants[i].fields) : ValidateField(i, k)
    \/ \E new \in DirtyNames : RenameRegister(new)
    \/ \E i \in 1..Len(comp.reg.variants) :
          \E k \in 1..Len(comp.reg.variants[i].fields) :
             \E new \in DirtyNames : RenameField(i, k, new)
    \/ \E v \in DirtyVariantInputs : DirtyAddVariant(v)
    \/ DirtySvdCompile

SpecDirty == InitDirty /\ [][NextDirty]_vars

\* has_been_edited of the node the last operation was called on.
OpNodeHasBeenEdited ==
    CASE comp.op.level = "register" -> RegisterHasBeenEdited(comp.reg)
      [] comp.op.level = "variant" ->
            VariantHasBeenEdited(comp.reg.variants[comp.op.i])
      [] comp.op.level = "field" ->
            comp.reg.variants[comp.op.i].fields[comp.op.k].edited

\* has_been_edited of every node above that node.
OpAncestorsHaveBeenEdited ==
    CASE comp.op.level = "register" -> TRUE
      [] comp.op.level = "variant" -> RegisterHasBeenEdited(comp.reg)
      [] comp.op.level = "field" ->
            /\ VariantHasBeenEdited(comp.reg.variants[comp.op.i])
            /\ RegisterHasBeenEdited(comp.reg)

\* No node from that node down has its flag set.
OpSubtreeClean ==
    CASE comp.op.level = "register" ->
            /\ ~ comp.reg.edited
            /\ \A i \in 1..Len(comp.reg.variants) :
                  /\ ~ comp.reg.variants[i].edited
                  /\ \A k \in 1..Len(comp.reg.variants[i].fields) :
                        ~ comp.reg.variants[i].fields[k].edited
      [] comp.op.level = "variant" ->
            /\ ~ comp.reg.variants[comp.op.i].edited
            /\ \A k \in 1..Len(comp.reg.variants[comp.op.i].fields) :
                  ~ comp.reg.variants[comp.op.i].fields[k].edited
      [] comp.op.level = "field" ->
            ~ comp.reg.variants[comp.op.i].fields[comp.op.k].edited

----------------------------------------------------------------------------
(* C27: dirty tracking *)

\* C27: right after validate_edit on a node has_been_edited is false for
\* the node and for every node below it; after a node was given another
\* name than the one it had, after a variant was added to a register and
\* after svd_compile removed a variant, has_been_edited is true for that
\* node and for every node above it; giving a node the name it has leaves
\* has_been_edited as it was, false when it was false.
C27_DirtyTracking ==
    /\ comp.op.kind = "validate_edit" =>
          /\ ~ OpNodeHasBeenEdited
          /\ OpSubtreeClean
    /\ (comp.op.kind \in {"name", "add_variant", "svd_compile"}
            /\ comp.op.changed) =>
          /\ OpNodeHasBeenEdited
          /\ OpAncestorsHaveBeenEdited
    /\ (comp.op.kind = "name" /\ ~ comp.op.changed) =>
          OpNodeHasBeenEdited = comp.op.was

\* A field of a validated register was given another name: neither the
\* register nor the variant has its own flag set, and both have been edited.
C27_Witness ==
    /\ comp.op.kind = "name"
    /\ comp.op.level = "field"
    /\ comp.op.changed
    /\ ~ comp.op.was
    /\ ~ comp.reg.edited
    /\ ~ comp.reg.variants[comp.op.i].edited
    /\ RegisterHasBeenEdited(comp.reg)

\* A validated register was given the name it has.
C27_WitnessSameName ==
    /\ comp.op.kind = "name"
    /\ comp.op.level = "register"
    /\ ~ comp.op.changed
    /\ ~ comp.op.was
    /\ Len(comp.reg.variants) = 2

\* svd_compile removed a variant of a validated register.
C27_WitnessRemoved ==
    /\ comp.op.kind = "svd_compile"
    /\ comp.op.changed
    /\ ~ comp.op.was

----------------------------------------------------------------------------
(* C26: the scope of a node that took no part in a merge *)

\* The mappings of the accumulator that did not absorb the incoming one.
MappingsLeftAlone ==
    {mi \in 1..Len(last.pre.acc.mappings) : mi # last.at}

\* The instances of the accumulator that equal no incoming instance.
InstancesLeftAlone ==
    {i \in 1..Len(last.pre.acc.instances) :
        \A k \in 1..Len(last.o.instances) :
            ~ InstanceEq(last.pre.acc.instances[i], last.o.instances[k])}

\* C26: scopes are not shared between the nodes of the accumulator: a
\* merge_peripheral leaves the scope of every mapping that did not absorb
\* the incoming mapping as it was, a mapping whose merge_mapping failed
\* among them, and it leaves the scope of every instance that equals no
\* incoming instance as it was, an instance appended by an earlier merge
\* among them.
C26_ScopesLeftAlone ==
    Merged =>
        /\ \A mi \in MappingsLeftAlone :
              Scope(st, st.acc.mappings[mi].chips)
                = Scope(last.pre, last.pre.acc.mappings[mi].chips)
        /\ \A i \in InstancesLeftAlone :
              Scope(st, st.acc.instances[i].chips)
                = Scope(last.pre, last.pre.acc.instances[i].chips)

\* The first half alone, for a mapping that refused the incoming one.
C26_RefusedMappingKeepsScope ==
    Merged =>
        \A mi \in MappingsLeftAlone :
            Scope(st, st.acc.mappings[mi].chips)
              = Scope(last.pre, last.pre.acc.mappings[mi].chips)

\* The second half alone.
C26_OtherInstanceKeepsScope ==
    Merged =>
        \A i \in InstancesLeftAlone :
            Scope(st, st.acc.instances[i].chips)
              = Scope(last.pre, last.pre.acc.instances[i].chips)

\* What holds of it: a scope object held by one node only is changed by no
\* merge that leaves that node alone.
C26_UnsharedInstanceKeepsScope ==
    Merged =>
        \A i \in InstancesLeftAlone :
            LET id == last.pre.acc.instances[i].chips
            IN  ( /\ id # last.pre.acc.chips
                  /\ \A mi \in 1..Len(last.pre.acc.mappings) :
                        last.pre.acc.mappings[mi].chips # id
                  /\ \A j \in 1..Len(last.pre.acc.instances) :
                        j # i => last.pre.acc.instances[j].chips # id )
                => Scope(st, id) = Scope(last.pre, id)

----------------------------------------------------------------------------
(* C24: the defines of a finalized tree *)

\* The aliases recorded under the scope S.
DefinedAliases(defines, S) ==
    UNION { {defines[k].handler[j].alias : j \in 1..Len(defines[k].handler)} :
              k \in {i \in 1..Len(defines) : defines[i].key = S} }

AllDefinedAliases(defines) ==
    UNION {DefinedAliases(defines, defines[k].key) : k \in 1..Len(defines)}

TreeScopes == SUBSET {"X", "Y"}

\* C24: after define() on the root of a finalized tree with an empty table,
\* the table holds alias a under scope S exactly when some node of the tree
\* has needs_define true, scope S and alias a, so that a node whose
\* needs_define is false adds nothing, and the guards of the nodes of one
\* scope stand under one key.
C24_DefineInference ==
    tree.phase = "defined" =>
        /\ \A S \in TreeScopes :
              \A a \in AllDefinedAliases(tree.defines)
                         \cup {Alias(tree.nodes, id) : id \in 1..Len(tree.nodes)} :
                 a \in DefinedAliases(tree.defines, S)
                   <=> \E id \in 1..Len(tree.nodes) :
                          /\ NodeNeedsDefine(tree.nodes, id)
                          /\ tree.nodes[id].chips = S
                          /\ Alias(tree.nodes, id) = a
        /\ \A k \in 1..Len(tree.defines) : \A j \in 1..Len(tree.defines) :
              tree.defines[k].key = tree.defines[j].key => k = j

\* The two fields of the variant are scoped to chip X alone, the variant to
\* both chips: the table has the one key {X}, with the aliases of the two
\* fields in the order of the walk, and nothing for the register, the
\* variant and the peripheral.
C24_Witness ==
    /\ tree.phase = "defined"
    /\ Len(tree.defines) = 1
    /\ tree.defines[1].key = {"X"}
    /\ Len(tree.defines[1].handler) = 2
    /\ tree.defines[1].handler[1].alias = "R2_F4"
    /\ tree.defines[1].handler[2].alias = "R2_F5"
    /\ ~ NodeNeedsDefine(tree.nodes, 3)

\* The two fields are scoped to different chips: two keys.
C24_WitnessTwoScopes ==
    /\ tree.phase = "defined"
    /\ Len(tree.defines) = 2
    /\ tree.defines[1].key = {"X"}
    /\ tree.defines[2].key = {"Y"}

====
